---- MODULE Spec2Model ----
(***************************************************************************)
(* Metadata-enrichment layer of RomM: the Twitch token manager            *)
(* (TwitchAuth), the IGDB request client (IGDBHandler._request), the      *)
(* search-with-fallback resolver (get_rom / _search_rom) and the          *)
(* two-provider merge of the search endpoint (search_rom).                *)
(*                                                                         *)
(* Two implementations of the IGDB handler exist side by side:            *)
(*   "handler"           src/backend/handler/igdb_handler.py              *)
(*   "metadata_handler"  src/backend/handler/metadata_handler/            *)
(*                       igdb_handler.py                                  *)
(* The variable impl selects which one a behaviour runs.                  *)
(***************************************************************************)
EXTENDS Integers, Sequences, FiniteSets, TLC

(***************************************************************************)
(* Bounds of the model.                                                    *)
(***************************************************************************)
MaxTime == 4            \* the clock runs over 1..MaxTime
MaxLifetime == 13       \* largest expires_in the token endpoint reports
RaceTime == 2           \* the clock of a two-process behaviour runs over 1..RaceTime
MaxRoms == 2            \* longest list of records a provider returns
MaxTokens == 3          \* tokens the token endpoint issues in one behaviour

(***************************************************************************)
(* Program constants.                                                      *)
(***************************************************************************)
TOKEN_MARGIN == 10      \* "expires_in - 10"
MAIN_GAME_CATEGORY == 0
EXPANDED_GAME_CATEGORY == 10
DEFAULT_URL_COVER_L == "default_cover_l"    \* config.DEFAULT_URL_COVER_L

Impls == {"handler", "metadata_handler"}
Clients == {1, 2}       \* two processes, each with its own IGDBHandler

EmptyToken == 0         \* "" and None: both are falsy in `not token`
TestToken == -2         \* "test_token", the fake token of a run under the tests
None == -1              \* cache.get of a key that is not set
(* expires_in of an issued token.  The token endpoint issues tokens that   *)
(* live for days; what cache.set does with ex <= 0 is not part of the      *)
(* model.                                                                  *)
Lifetimes == (TOKEN_MARGIN + 1)..MaxLifetime

(* Answers of the provider to one requests.post of _request.  The class    *)
(* ConnectTimeout of requests derives from both ConnectionError and        *)
(* Timeout, so it is caught by whichever except clause comes first.        *)
Responses ==
    {"ok", "http401", "http500", "timeout", "connect_timeout", "connection_error"}

(* Answers of https://id.twitch.tv/oauth2/token to the credential exchange *)
ExchangeKinds == {"ok", "status400", "no_token", "zero_lifetime", "connection_error"}

VARIABLES
    impl,               \* which IGDBHandler implementation runs
    active,             \* the clients that run in this behaviour
    answers,            \* the answers the provider gives in this behaviour
    kinds,              \* the answers the token endpoint gives in this behaviour
    lifetimes,          \* the expires_in values it reports in this behaviour
    horizon,            \* the instant at which the clock of this behaviour stops
    now,                \* time.time()
    cacheToken,         \* cache key romm:twitch_token (EmptyToken: not set)
    cacheTokenDeadline, \* instant at which the key's ex= lifetime ends
    cacheExpiresAt,     \* cache key romm:twitch_token_expires_at (None: not set)
    issued,             \* number of tokens the token endpoint has issued
    snapshots,          \* history: the (token, expires_at) pairs the cache held
                        \* while no refresh was between its two cache.set calls
    written,            \* history: the (token, expires_at) pair of each refresh
    pc,                 \* per client: position in the code
    phase,              \* per client: "init" (__init__) or "call" (decorated method)
    ret,                \* per client: caller of _update_twitch_token
    hdr,                \* per client: self.headers["Authorization"] token
    token,              \* per client: local `token`
    expires_in,         \* per client: local `expires_in`
    exchange,           \* per client: history, answer of the last exchange
    oauth,              \* per client: history, last decision of get_oauth_token
    sends,              \* per client: history, the sends of the _request call
    refreshes,          \* per client: history, forced refreshes of the _request call
    result              \* per client: outcome of the client's run

VARIABLES
    romPc,              \* get_rom: position in the code
    romTerm,            \* get_rom: search_term after _normalize_search_term
    romPlatform,        \* get_rom: platform_idgb_id
    attempt,            \* get_rom: which _search_rom call of the `or` chain runs
    roms,               \* _search_rom: local `roms`
    queries,            \* history: the queries handed to _request, in order
    rom,                \* get_rom: local `rom` (the dict _search_rom returned)
    attempts,           \* history: what each finished _search_rom call returned
    igdb_id,            \* get_rom_by_id: its argument (None: no lookup by id)
    igdb_rom,           \* the IGDBRom that get_rom / get_rom_by_id builds
    igdb_matched_roms,  \* search_rom: records of the first provider
    moby_matched_roms,  \* search_rom: records of the later provider
    merged_dict,        \* search_rom: the dict, as its values in insertion order
    matched_roms,       \* search_rom: the list returned
    mergePc             \* search_rom: "input" before the merge, "done" after

VARIABLES
    pytest,             \* "pytest" in sys.modules: the process runs under the tests
    file_name,          \* get_rom: its argument file_name
    files,              \* the index files that exist on disk
    loads,              \* history: each open() of an index file, and whether it was there
    refreshTasks,       \* history: the index refresh tasks run with force=True
    product_id,         \* _switch_productid_format: the key it looks up ({}: none)
    exception,          \* the exception that has left get_rom, and the answers behind it
    rom_attrs,          \* scan_rom: the attributes of the Rom it returns
    slug,               \* get_platform: its argument
    platforms,          \* get_platform: local `platforms`
    platform_versions,  \* get_platform: local `platform_versions`
    platform,           \* get_platform: the IGDBPlatform it returns
    platformPc          \* get_platform: position in the code

VARIABLES
    search_extended,            \* get_matched_roms_by_name: its argument
    alternative_matched_roms    \* get_matched_roms_by_name: its local of that name

VARIABLES
    posts,              \* history: the requests.post calls _request has made for get_rom
    retrying            \* _request: it is between its two try blocks

romVars == <<romPc, romTerm, romPlatform, attempt, roms, queries, rom, attempts,
             igdb_id, igdb_rom>>
mergeVars == <<igdb_matched_roms, moby_matched_roms, merged_dict, matched_roms, mergePc>>
indexVars == <<file_name, files, loads, refreshTasks, product_id>>
platformVars == <<slug, platforms, platform_versions, platform, platformPc>>
nameVars == <<search_extended, alternative_matched_roms>>
sideVars == <<indexVars, exception, rom_attrs, platformVars, nameVars, posts, retrying>>

vars == <<impl, active, answers, kinds, lifetimes, horizon, now, cacheToken, cacheTokenDeadline, cacheExpiresAt, issued,
          snapshots, written, pc, phase, ret, hdr, token, expires_in, exchange,
          oauth, sends, refreshes, result, romVars, mergeVars, pytest, sideVars>>

cacheVars == <<cacheToken, cacheTokenDeadline, cacheExpiresAt, snapshots, written>>

NoOauth == [tok |-> None, exp |-> None, at |-> 0, how |-> "none", returned |-> None]

(* What no step of the token manager or of the request client changes.     *)
world == <<impl, active, answers, kinds, lifetimes, horizon, romVars, mergeVars,
           pytest, sideVars>>

(* The lists of at most MaxRoms elements of S.                             *)
ListsOf(S) == UNION { [1..n -> S] : n \in 0..MaxRoms }

(* A python dict with no key.                                              *)
EmptyDict == <<>>
IsEmptyDict(d) == DOMAIN d = {}

(* No get_rom call and no search_rom call is running.                      *)
RomOff ==
    /\ romPc = "off"
    /\ romTerm = ""
    /\ romPlatform = 0
    /\ attempt = 0
    /\ roms = <<>>
    /\ queries = <<>>
    /\ rom = EmptyDict
    /\ attempts = <<>>
    /\ igdb_id = None
    /\ igdb_rom = EmptyDict

MergeOff ==
    /\ mergePc = "off"
    /\ igdb_matched_roms = <<>>
    /\ moby_matched_roms = <<>>
    /\ merged_dict = <<>>
    /\ matched_roms = <<>>

(* No exception has been raised.                                           *)
NoException == [raised |-> "none", first |-> "none", exchange |-> "none", retry |-> "none"]

(* No get_platform call is running.                                        *)
PlatformOff ==
    /\ slug = ""
    /\ platforms = <<>>
    /\ platform_versions = <<>>
    /\ platform = EmptyDict
    /\ platformPc = "off"

(* get_rom is called with no file name and reads no index; no scan_rom and *)
(* no get_platform call is running.                                        *)
SideOff ==
    /\ file_name = ""
    /\ files = {}
    /\ loads = <<>>
    /\ refreshTasks = <<>>
    /\ product_id = EmptyDict
    /\ exception = NoException
    /\ rom_attrs = EmptyDict
    /\ search_extended = FALSE
    /\ alternative_matched_roms = <<>>
    /\ posts = 0
    /\ retrying = FALSE
    /\ PlatformOff

(* The token manager before any IGDBHandler is constructed, the cache     *)
(* empty.                                                                  *)
TokenStart ==
    /\ now = 1
    /\ cacheToken = EmptyToken
    /\ cacheTokenDeadline = 0
    /\ cacheExpiresAt = None
    /\ issued = 0
    /\ snapshots = {<<EmptyToken, None>>}
    /\ written = {}
    /\ pc = [c \in Clients |-> "new"]
    /\ phase = [c \in Clients |-> "init"]
    /\ ret = [c \in Clients |-> "oauth"]
    /\ hdr = [c \in Clients |-> EmptyToken]
    /\ token = [c \in Clients |-> EmptyToken]
    /\ expires_in = [c \in Clients |-> 0]
    /\ exchange = [c \in Clients |-> "none"]
    /\ oauth = [c \in Clients |-> NoOauth]
    /\ sends = [c \in Clients |-> <<>>]
    /\ refreshes = [c \in Clients |-> 0]
    /\ result = [c \in Clients |-> "none"]

(* No process uses the token manager.                                      *)
TokenOff ==
    /\ TokenStart
    /\ pytest = FALSE
    /\ active = {}
    /\ answers = {}
    /\ kinds = {}
    /\ lifetimes = {}
    /\ horizon = 1

Start ==
    /\ impl \in Impls
    /\ TokenStart
    /\ RomOff
    /\ MergeOff
    /\ SideOff

(* One process, any answer of the provider and of the token endpoint, in   *)
(* production or under the tests.                                          *)
Init ==
    /\ Start
    /\ pytest \in BOOLEAN
    /\ active = {1}
    /\ answers = Responses
    /\ kinds = ExchangeKinds
    /\ lifetimes = Lifetimes
    /\ horizon = MaxTime

(* Two processes sharing the cache; the provider answers 200 or 401 and    *)
(* the token endpoint issues tokens of two different lifetimes.            *)
InitRace ==
    /\ Start
    /\ pytest = FALSE
    /\ active = Clients
    /\ answers = {"ok", "http401"}
    /\ kinds = {"ok"}
    /\ lifetimes = {TOKEN_MARGIN + 1, TOKEN_MARGIN + 2}
    /\ horizon = RaceTime

(***************************************************************************)
(* Pure decisions of the code, one operator per branch structure.          *)
(***************************************************************************)

(* float(token_expires_at or 0) *)
FloatOr0(x) == IF x = None THEN 0 ELSE x

(* get_oauth_token: `not token or time.time() > float(token_expires_at or 0)` *)
TokenStale(tok, exp, t) == tok = EmptyToken \/ t > FloatOr0(exp)

(* _update_twitch_token with its `if not token or expires_in == 0` test    *)
(* lost: a token reported with lifetime 0 is written to the cache.         *)
UpdateOutcome_ZeroLifetimeCached(i, kind) ==
    IF i = "handler"
    THEN CASE kind = "status400" -> "return_empty"
           [] kind = "connection_error" -> "return_empty"
           [] kind = "no_token" -> "return_empty"
           [] OTHER -> "cache"
    ELSE CASE kind = "connection_error" -> "raise"
           [] kind \in {"status400", "no_token"} -> "exit"
           [] OTHER -> "cache"

(* _update_twitch_token, from the answer of the exchange to what the       *)
(* function does next: "cache" (go on to the two cache.set calls),         *)
(* "return_empty" (return ""), "return_token" (return the token, nothing   *)
(* cached), "exit" (sys.exit(2)), "raise" (ConnectionError propagates to   *)
(* the caller: the run ends with result "exchange_raise").                 *)
UpdateOutcome(i, kind) ==
    IF i = "handler"
    THEN CASE kind = "status400" -> "return_empty"
           [] kind = "connection_error" -> "return_empty"
           [] kind = "no_token" -> "return_empty"
           [] kind = "zero_lifetime" -> "return_token"
           [] OTHER -> "cache"
    ELSE CASE kind = "connection_error" -> "raise"
           [] kind \in {"status400", "no_token", "zero_lifetime"} -> "exit"
           [] OTHER -> "cache"

(* FirstSendOutcome with the 401 branch lost: a 401 is retried like a      *)
(* timeout, without a refresh.                                             *)
FirstSendOutcome_NoRefresh(i, r) ==
    CASE r = "ok" -> "list"
      [] r = "http500" -> "empty"
      [] r = "connection_error" -> IF i = "handler" THEN "http503" ELSE "raise"
      [] OTHER -> "retry"

(* FirstSendOutcome with `except Timeout` doing what the 401 branch does: *)
(* a timeout forces a refresh before the retry.                            *)
FirstSendOutcome_TimeoutRefreshes(i, r) ==
    CASE r = "ok" -> "list"
      [] r = "http500" -> "empty"
      [] r = "connection_error" -> IF i = "handler" THEN "http503" ELSE "raise"
      [] r = "connect_timeout" -> IF i = "handler" THEN "http503" ELSE "refresh"
      [] OTHER -> "refresh"

(* FirstSendOutcome with the status test of the HTTPError clause lost:    *)
(* every HTTP error status but 401 is retried like a timeout.              *)
FirstSendOutcome_ErrorRetried(i, r) ==
    CASE r = "ok" -> "list"
      [] r = "http401" -> "refresh"
      [] r = "connection_error" -> IF i = "handler" THEN "http503" ELSE "raise"
      [] r = "connect_timeout" -> IF i = "handler" THEN "http503" ELSE "retry"
      [] OTHER -> "retry"

(* FirstSendOutcome with the HTTPError clause handling the 401 alone: any  *)
(* other error status leaves _request as an exception.                     *)
FirstSendOutcome_ErrorRaises(i, r) ==
    CASE r = "ok" -> "list"
      [] r = "http401" -> "refresh"
      [] r = "http500" -> "raise"
      [] r = "connection_error" -> IF i = "handler" THEN "http503" ELSE "raise"
      [] r = "connect_timeout" -> IF i = "handler" THEN "http503" ELSE "retry"
      [] OTHER -> "retry"

(* _request, first try block: "list" (return res.json()), "empty"          *)
(* (return []), "http503" (HTTPException 503), "raise" (ConnectionError    *)
(* propagates), "refresh" (401: refresh, then second try), "retry"         *)
(* (timeout: second try).                                                  *)
FirstSendOutcome(i, r) ==
    IF i = "handler"
    THEN CASE r = "ok" -> "list"
           [] r \in {"connection_error", "connect_timeout"} -> "http503"
           [] r = "http401" -> "refresh"
           [] r = "http500" -> "empty"
           [] OTHER -> "retry"
    ELSE CASE r = "ok" -> "list"
           [] r = "http401" -> "refresh"
           [] r = "http500" -> "empty"
           [] r \in {"timeout", "connect_timeout"} -> "retry"
           [] OTHER -> "raise"

(* RetryOutcome with `except HTTPError` alone: a timeout of the retry      *)
(* propagates.                                                             *)
RetryOutcome_TimeoutEscapes(i, r) ==
    CASE r = "ok" -> "list"
      [] r \in {"http401", "http500"} -> "empty"
      [] OTHER -> "raise"

(* _request, second try block: except (HTTPError, Timeout) -> []           *)
RetryOutcome(i, r) ==
    CASE r = "ok" -> "list"
      [] r \in {"http401", "http500", "timeout", "connect_timeout"} -> "empty"
      [] OTHER -> "raise"

(* Where get_oauth_token's caller goes on: __init__ ends, or the decorated *)
(* method starts its _request.                                             *)
AfterOauth(c) == IF phase[c] = "init" THEN "ready" ELSE "send1"

(* Where _update_twitch_token's caller goes on.                            *)
AfterUpdate(c) == IF ret[c] = "oauth" THEN AfterOauth(c) ELSE "send2"

MidWrite(c) == pc[c] = "upd_set_expiry"

(***************************************************************************)
(* get_oauth_token                                                         *)
(***************************************************************************)

(* get_oauth_token without its first statement: the cache is read also     *)
(* under the tests.                                                        *)
OauthGetToken_NoBypass(c) ==
    /\ pc[c] \in {"new", "ready"}
    /\ phase' = [phase EXCEPT ![c] = IF pc[c] = "new" THEN "init" ELSE "call"]
    /\ token' = [token EXCEPT ![c] = cacheToken]
    /\ pc' = [pc EXCEPT ![c] = "oauth_get_expiry"]
    /\ UNCHANGED <<world, now, cacheVars, issued, ret, hdr, expires_in, exchange,
                   oauth, sends, refreshes, result>>

(* The start of get_oauth_token.  It is entered from __init__ (pc "new")   *)
(* and from the check_twitch_token wrapper of a decorated method (pc       *)
(* "ready").  Under the tests it returns "test_token" at once, and the     *)
(* caller stores it in self.headers["Authorization"]; otherwise its first  *)
(* statement is token = cache.get("romm:twitch_token").                    *)
OauthGetToken(c) ==
    /\ pc[c] \in {"new", "ready"}
    /\ phase' = [phase EXCEPT ![c] = IF pc[c] = "new" THEN "init" ELSE "call"]
    /\ IF pytest
       THEN /\ pc' = [pc EXCEPT ![c] = IF pc[c] = "new" THEN "ready" ELSE "send1"]
            /\ hdr' = [hdr EXCEPT ![c] = TestToken]
            /\ oauth' = [oauth EXCEPT ![c] =
                            [tok |-> None, exp |-> None, at |-> now,
                             how |-> "test", returned |-> TestToken]]
            /\ token' = token
       ELSE /\ token' = [token EXCEPT ![c] = cacheToken]
            /\ pc' = [pc EXCEPT ![c] = "oauth_get_expiry"]
            /\ UNCHANGED <<hdr, oauth>>
    /\ UNCHANGED <<world, now, cacheVars, issued, ret, expires_in, exchange,
                   sends, refreshes, result>>

(* token_expires_at = cache.get(...), then the staleness test.             *)
OauthCheck(c) ==
    LET stale == TokenStale(token[c], cacheExpiresAt, now) IN
    /\ pc[c] = "oauth_get_expiry"
    /\ oauth' = [oauth EXCEPT ![c] =
                    [tok |-> token[c], exp |-> cacheExpiresAt, at |-> now,
                     how |-> IF stale THEN "exchange" ELSE "cached",
                     returned |-> IF stale THEN None ELSE token[c]]]
    /\ IF stale
       THEN /\ pc' = [pc EXCEPT ![c] = "upd_post"]
            /\ ret' = [ret EXCEPT ![c] = "oauth"]
            /\ hdr' = hdr
       ELSE /\ pc' = [pc EXCEPT ![c] = AfterOauth(c)]
            /\ ret' = ret
            /\ hdr' = [hdr EXCEPT ![c] = token[c]]
    /\ UNCHANGED <<world, now, cacheVars, issued, phase, token, expires_in,
                   exchange, sends, refreshes, result>>

(***************************************************************************)
(* _update_twitch_token                                                    *)
(***************************************************************************)

(* `return t` of _update_twitch_token, seen from its caller: both callers  *)
(* store the value in self.headers["Authorization"].                       *)
Return(c, t) ==
    /\ hdr' = [hdr EXCEPT ![c] = t]
    /\ pc' = [pc EXCEPT ![c] = AfterUpdate(c)]
    /\ oauth' = IF ret[c] = "oauth" THEN [oauth EXCEPT ![c].returned = t] ELSE oauth
    /\ result' = result

(* The client's run ends without a value: sys.exit or an exception.        *)
Abort(c, how) ==
    /\ pc' = [pc EXCEPT ![c] = "done"]
    /\ result' = [result EXCEPT ![c] = how]
    /\ UNCHANGED <<hdr, oauth>>

(* requests.post to the token endpoint and the checks on its answer.       *)
UpdPost(c, kind, d) ==
    LET out == UpdateOutcome(impl, kind)
        fresh == issued + 1 IN
    /\ pc[c] = "upd_post"
    /\ kind \in {"ok", "zero_lifetime"} => issued < MaxTokens
    /\ exchange' = [exchange EXCEPT ![c] = kind]
    /\ issued' = IF kind \in {"ok", "zero_lifetime"} THEN fresh ELSE issued
    /\ CASE out = "cache" ->
              /\ token' = [token EXCEPT ![c] = fresh]
              /\ expires_in' = [expires_in EXCEPT ![c] = d]
              /\ pc' = [pc EXCEPT ![c] = "upd_set_token"]
              /\ UNCHANGED <<hdr, oauth, result>>
         [] out = "return_token" ->
              /\ token' = [token EXCEPT ![c] = fresh]
              /\ expires_in' = [expires_in EXCEPT ![c] = 0]
              /\ Return(c, fresh)
         [] out = "return_empty" ->
              /\ token' = [token EXCEPT ![c] = EmptyToken]
              /\ expires_in' = [expires_in EXCEPT ![c] = 0]
              /\ Return(c, EmptyToken)
         [] out = "exit" ->
              /\ UNCHANGED <<token, expires_in>>
              /\ Abort(c, "exit")
         [] OTHER ->
              /\ UNCHANGED <<token, expires_in>>
              /\ Abort(c, "exchange_raise")
    /\ UNCHANGED <<world, now, cacheVars, phase, ret, sends, refreshes>>

(* cache.set("romm:twitch_token", token, ex=expires_in - 10): the key is  *)
(* set and lives for expires_in - 10 seconds from now.                     *)
UpdSetToken(c) ==
    /\ pc[c] = "upd_set_token"
    /\ cacheToken' = token[c]
    /\ cacheTokenDeadline' = now + expires_in[c] - TOKEN_MARGIN
    /\ pc' = [pc EXCEPT ![c] = "upd_set_expiry"]
    /\ UNCHANGED <<world, now, cacheExpiresAt, snapshots, written, issued, phase,
                   ret, hdr, token, expires_in, exchange, oauth, sends, refreshes,
                   result>>

(* cache.set("romm:twitch_token_expires_at", time.time() + expires_in - 10) *)
(* and `return token`.                                                     *)
UpdSetExpiry(c) ==
    LET at == now + expires_in[c] - TOKEN_MARGIN IN
    /\ pc[c] = "upd_set_expiry"
    /\ cacheExpiresAt' = at
    /\ written' = written \cup {<<token[c], at>>}
    /\ snapshots' = IF \E o \in Clients \ {c} : MidWrite(o)
                    THEN snapshots
                    ELSE snapshots \cup {<<cacheToken, at>>}
    /\ Return(c, token[c])
    /\ UNCHANGED <<world, now, cacheToken, cacheTokenDeadline, issued, phase, ret,
                   token, expires_in, exchange, sends, refreshes>>

(***************************************************************************)
(* _request                                                                *)
(***************************************************************************)

(* First try block: requests.post with self.headers, and its except clauses. *)
Send1(c, r) ==
    LET out == FirstSendOutcome(impl, r) IN
    /\ pc[c] = "send1"
    /\ sends' = [sends EXCEPT ![c] = Append(@, [auth |-> hdr[c], resp |-> r])]
    /\ CASE out = "refresh" ->
              /\ pc' = [pc EXCEPT ![c] = "upd_post"]
              /\ ret' = [ret EXCEPT ![c] = "request"]
              /\ refreshes' = [refreshes EXCEPT ![c] = @ + 1]
              /\ result' = result
         [] out = "retry" ->
              /\ pc' = [pc EXCEPT ![c] = "send2"]
              /\ UNCHANGED <<ret, refreshes, result>>
         [] OTHER ->
              /\ pc' = [pc EXCEPT ![c] = "done"]
              /\ result' = [result EXCEPT ![c] = out]
              /\ UNCHANGED <<ret, refreshes>>
    /\ UNCHANGED <<world, now, cacheVars, issued, phase, hdr, token, expires_in,
                   exchange, oauth>>

(* Second try block.                                                       *)
Send2(c, r) ==
    /\ pc[c] = "send2"
    /\ sends' = [sends EXCEPT ![c] = Append(@, [auth |-> hdr[c], resp |-> r])]
    /\ pc' = [pc EXCEPT ![c] = "done"]
    /\ result' = [result EXCEPT ![c] = RetryOutcome(impl, r)]
    /\ UNCHANGED <<world, now, cacheVars, issued, phase, ret, hdr, token,
                   expires_in, exchange, oauth, refreshes>>

(***************************************************************************)
(* Environment: the clock and the cache's key expiry.                      *)
(***************************************************************************)

(* The token key, once removed by its ex= lifetime.                        *)
Expired(tok, exp) ==
    /\ cacheToken' = EmptyToken
    /\ snapshots' = IF \E o \in Clients : MidWrite(o)
                    THEN snapshots
                    ELSE snapshots \cup {<<EmptyToken, exp>>}
    /\ UNCHANGED <<cacheTokenDeadline, cacheExpiresAt, written>>

(* Time passes; a key whose lifetime is over is gone.                      *)
Tick ==
    /\ now < horizon
    /\ now' = now + 1
    /\ IF cacheToken # EmptyToken /\ now + 1 > cacheTokenDeadline
       THEN Expired(cacheToken, cacheExpiresAt)
       ELSE UNCHANGED cacheVars
    /\ UNCHANGED <<world, issued, pc, phase, ret, hdr, token, expires_in, exchange,
                   oauth, sends, refreshes, result>>

(* At the very instant the lifetime ends the key may or may not be gone.   *)
CacheExpire ==
    /\ cacheToken # EmptyToken
    /\ now = cacheTokenDeadline
    /\ Expired(cacheToken, cacheExpiresAt)
    /\ UNCHANGED <<world, now, issued, pc, phase, ret, hdr, token, expires_in,
                   exchange, oauth, sends, refreshes, result>>

Next ==
    \/ \E c \in active : OauthGetToken(c)
    \/ \E c \in active : OauthCheck(c)
    \/ \E c \in active, kind \in kinds, d \in lifetimes : UpdPost(c, kind, d)
    \/ \E c \in active : UpdSetToken(c)
    \/ \E c \in active : UpdSetExpiry(c)
    \/ \E c \in active, r \in answers : Send1(c, r)
    \/ \E c \in active, r \in answers : Send2(c, r)
    \/ Tick
    \/ CacheExpire

Spec == Init /\ [][Next]_vars

SpecRace == InitRace /\ [][Next]_vars

(***************************************************************************)
(* Request Client and Token Manager: properties.                           *)
(***************************************************************************)

Done(c) == pc[c] = "done"
FirstIs401(c) == Len(sends[c]) >= 1 /\ sends[c][1].resp = "http401"

(* Results with which a run ends when the forced refresh does not return:  *)
(* sys.exit(2), or the ConnectionError of the exchange.                    *)
RefreshFatal == {"exit", "exchange_raise"}

(* C1, as stated: in every finished _request call whose first send was     *)
(* answered 401 there was exactly one forced refresh and exactly one       *)
(* further send, carrying the token of that refresh; and if the second     *)
(* send was answered 401 too the call returned [].                         *)
C1_RetryAlwaysSent ==
    \A c \in active :
        (Done(c) /\ FirstIs401(c)) =>
            /\ refreshes[c] = 1
            /\ Len(sends[c]) = 2
            /\ sends[c][2].auth = token[c]
            /\ (sends[c][2].resp = "http401" => result[c] = "empty")

(* C1, amended: after a first 401 there is exactly one forced refresh and  *)
(* never a third send; unless the refresh ends the run (sys.exit or an     *)
(* exception), the call makes exactly one further send, which carries the  *)
(* token the refresh returned, and a second 401 gives [].                  *)
C1_RefreshOnceRetryOnce ==
    \A c \in active :
        FirstIs401(c) =>
            /\ refreshes[c] = 1
            /\ Len(sends[c]) <= 2
            /\ Done(c) =>
                  \/ /\ Len(sends[c]) = 1
                     /\ result[c] \in RefreshFatal
                  \/ /\ Len(sends[c]) = 2
                     /\ sends[c][2].auth = token[c]
                     /\ sends[c][2].auth = hdr[c]
                     /\ (sends[c][2].resp = "http401" => result[c] = "empty")

(* C1 witness: two 401 in a row, one refresh that obtained a token, the    *)
(* retry carried it, the call returned [].                                 *)
C1_Witness ==
    \E c \in active :
        /\ Done(c) /\ FirstIs401(c)
        /\ Len(sends[c]) = 2 /\ sends[c][2].resp = "http401"
        /\ exchange[c] = "ok" /\ sends[c][2].auth = token[c]
        /\ sends[c][2].auth # sends[c][1].auth
        /\ result[c] = "empty"

(* C5, as stated: however the retry send fails, the call returns [].       *)
C5_RetryFailsSoftAnyFailure ==
    \A c \in active :
        (Done(c) /\ Len(sends[c]) = 2 /\ sends[c][2].resp # "ok") =>
            result[c] = "empty"

(* C5, amended: when the retry send fails with an HTTP error status or a   *)
(* timeout, the call returns [] and raises nothing.                        *)
C5_RetryFailsSoft ==
    \A c \in active :
        (Done(c) /\ Len(sends[c]) = 2
            /\ sends[c][2].resp \in {"http401", "http500", "timeout", "connect_timeout"}) =>
            result[c] = "empty"

(* C5 witness: a first send that timed out, a retry that timed out, [].    *)
C5_Witness ==
    \E c \in active :
        /\ Done(c) /\ Len(sends[c]) = 2
        /\ sends[c][1].resp = "timeout" /\ sends[c][2].resp = "timeout"
        /\ result[c] = "empty"

(* C6: a call one of whose sends met a connection failure ends in the      *)
(* HTTP 503 outcome, in both implementations.                              *)
C6_ConnectionFailureIs503 ==
    \A c \in active :
        (Done(c) /\ \E i \in 1..Len(sends[c]) : sends[c][i].resp = "connection_error") =>
            result[c] = "http503"

(* C7: once the credential exchange has failed, the run has ended in a     *)
(* fatal outcome: no token string (not even "") was returned to the caller *)
(* and so no request is sent with it.                                      *)
C7_FailedExchangeIsFatal ==
    \A c \in active :
        exchange[c] \in {"status400", "no_token", "connection_error"} =>
            /\ Done(c)
            /\ result[c] \in {"exit", "exchange_raise"}

(* C8: get_oauth_token answers from the cache, without an exchange,        *)
(* exactly when a token is cached and now < cached expiry; otherwise it    *)
(* makes an exchange and returns the token that exchange obtained.         *)
C8_CachedIffBeforeExpiry ==
    \A c \in active :
        oauth[c].how # "none" =>
            /\ oauth[c].how = "cached" <=>
                  /\ oauth[c].tok # EmptyToken
                  /\ oauth[c].exp # None
                  /\ oauth[c].at < oauth[c].exp
            /\ oauth[c].how = "cached" => oauth[c].returned = oauth[c].tok
            /\ (oauth[c].how = "exchange" /\ oauth[c].returned # None
                    /\ pc[c] \in {"ready", "send1"} /\ exchange[c] = "ok") =>
                  oauth[c].returned = token[c]

(* C9: a token written by a refresh with expiry e = t0 + d - 10 is never   *)
(* returned from the cache at an instant at or after e.                    *)
C9_NeverCachedAtOrAfterExpiry ==
    \A c \in active :
        oauth[c].how = "cached" =>
            \A w \in written : w[1] = oauth[c].tok => oauth[c].at < w[2]

(* C2: the pair (token, expires_at) a reader of get_oauth_token has read   *)
(* is a pair the cache held between refreshes, never half of a refresh.    *)
C2_ReaderSeesWholeRefresh ==
    \A c \in active :
        oauth[c].how # "none" => <<oauth[c].tok, oauth[c].exp>> \in snapshots

(* C10: once two refreshes forced by 401 have both returned, the cached    *)
(* token and the cached expiry were written by one and the same refresh,   *)
(* and both retries carry a token the endpoint issued.                     *)
C10_LastWriterWins ==
    (\A c \in Clients : c \in active /\ refreshes[c] = 1 /\ pc[c] \in {"send2", "done"}
                        /\ result[c] \notin RefreshFatal) =>
        /\ cacheToken # EmptyToken => <<cacheToken, cacheExpiresAt>> \in written
        /\ \A c \in Clients : hdr[c] \in 1..issued

FirstIs(c, rs) == Len(sends[c]) >= 1 /\ sends[c][1].resp \in rs

(* What C11 says of a call whose first send was answered by one of rs:     *)
(* no refresh is forced and the header stays as sent; the call goes        *)
(* straight to one re-send with that same header, never to a third send;   *)
(* and a re-send that times out gives [].                                  *)
ResentUnmodified(c, rs) ==
    FirstIs(c, rs) =>
        /\ refreshes[c] = 0
        /\ pc[c] \in {"send2", "done"}
        /\ hdr[c] = sends[c][1].auth
        /\ Len(sends[c]) <= 2
        /\ Done(c) =>
              /\ Len(sends[c]) = 2
              /\ sends[c][2].auth = sends[c][1].auth
              /\ (sends[c][2].resp \in {"timeout", "connect_timeout"} =>
                      result[c] = "empty")

(* C11, as stated: whenever the first send of a call times out (any        *)
(* requests Timeout, a timeout of the connection attempt included), the    *)
(* request is sent once more with the same Authorization header and        *)
(* without a refresh, and a second timeout gives [].                       *)
C11_AnyTimeoutResent ==
    \A c \in active : ResentUnmodified(c, {"timeout", "connect_timeout"})

(* C11, amended: whenever the first send times out waiting for the         *)
(* response (a Timeout that is not also a ConnectionError), the request is *)
(* sent once more with the same Authorization header and without a         *)
(* refresh, and a re-send that times out gives [].                         *)
C11_ReadTimeoutResent ==
    \A c \in active : ResentUnmodified(c, {"timeout"})

(* C11 witness: a token in the header, two timeouts in a row with that     *)
(* header on both sends, no refresh, [].                                   *)
C11_Witness ==
    \E c \in active :
        /\ Done(c) /\ FirstIs(c, {"timeout"})
        /\ Len(sends[c]) = 2 /\ sends[c][2].resp = "timeout"
        /\ sends[c][1].auth # EmptyToken
        /\ sends[c][2].auth = sends[c][1].auth
        /\ refreshes[c] = 0
        /\ result[c] = "empty"

(* The step of client c that receives the answer r to its first send.     *)
FirstAnswered(c, r) ==
    /\ pc[c] = "send1"
    /\ Len(sends'[c]) = 1
    /\ sends'[c][1].resp = r

(* C12: the step that receives an HTTP error status other than 401 on the  *)
(* first send ends the call with [], forces no refresh and leaves the      *)
(* cached token, the cached expiry and the handler's Authorization header  *)
(* as they were; and a call that ended so has made that one send only.     *)
C12_ErrorStatusReturnsEmpty ==
    /\ [][\A c \in active :
            FirstAnswered(c, "http500") =>
                /\ pc'[c] = "done"
                /\ result'[c] = "empty"
                /\ refreshes'[c] = 0
                /\ hdr'[c] = hdr[c]
                /\ hdr'[c] = sends'[c][1].auth
                /\ issued' = issued
                /\ <<cacheToken, cacheTokenDeadline, cacheExpiresAt>>' =
                      <<cacheToken, cacheTokenDeadline, cacheExpiresAt>>]_vars
    /\ [](\A c \in active :
            FirstIs(c, {"http500"}) =>
                /\ Done(c)
                /\ Len(sends[c]) = 1
                /\ refreshes[c] = 0
                /\ result[c] = "empty")

(* C12 witness: a call that sent the cached token, was answered with an    *)
(* error status other than 401 and returned []; the cache still holds that *)
(* token.                                                                  *)
C12_Witness ==
    \E c \in active :
        /\ Done(c) /\ FirstIs(c, {"http500"})
        /\ Len(sends[c]) = 1
        /\ result[c] = "empty"
        /\ hdr[c] # EmptyToken
        /\ cacheToken = hdr[c]
        /\ refreshes[c] = 0

(***************************************************************************)
(* get_rom: the category fallback, and _search_rom.                        *)
(***************************************************************************)

(* Search terms get_rom arrives at.  "Pok'emon" stands for the term with   *)
(* an accented e, which unidecode turns into a plain e.                    *)
Terms == {"zelda", "Zelda II", "Pok'emon"}
Platforms == {4}           \* platform_idgb_id; it only travels into the queries

(* unidecode(search_term)                                                  *)
Unidecode(t) == IF t = "Pok'emon" THEN "Pokemon" ELSE t

(* str.lower() on the strings of the model                                 *)
Lower(t) ==
    CASE t = "Zelda" -> "zelda"
      [] t = "Zelda II" -> "zelda ii"
      [] t = "Pokemon" -> "pokemon"
      [] t = "Pok'emon" -> "pok'emon"
      [] t = "PS2" -> "ps2"
      [] OTHER -> t

(* Game records of the provider, as python dicts: a key the provider      *)
(* leaves out is not in the record's domain.  The second game has neither  *)
(* summary nor cover nor screenshots, the third no screenshots; the title  *)
(* of the fourth has the accented e.                                       *)
Games ==
    { [id |-> 1, name |-> "Zelda", slug |-> "zelda", summary |-> "summary_1",
       cover |-> [url |-> "//igdb/t_thumb/co1.jpg"],
       screenshots |-> <<[url |-> "//igdb/t_thumb/sc1.jpg"], [id |-> 77]>>],
      [id |-> 2, name |-> "Zelda II", slug |-> "zelda-ii"],
      [id |-> 3, name |-> "Pokemon Snap", slug |-> "pokemon", summary |-> "summary_3",
       cover |-> [url |-> "//igdb/t_thumb/co3.jpg"]],
      [id |-> 4, name |-> "Pok'emon", slug |-> "pok-emon"] }

(* What one _request call hands back: a list of records ([] also when the  *)
(* request failed softly).                                                 *)
GameLists == ListsOf(Games)

(* The category argument of the k-th _search_rom call of get_rom's `or`    *)
(* chain; the third call leaves the parameter at its default, 0.           *)
CategoryOf(k) ==
    CASE k = 1 -> MAIN_GAME_CATEGORY
      [] k = 2 -> EXPANDED_GAME_CATEGORY
      [] OTHER -> 0

(* category_filter = f"& category={category}" if category else ""          *)
(* The filter is modelled as the tuple of its parts, "" as the empty tuple. *)
CategoryFilter(category) ==
    IF category # 0 THEN <<"& category=", category>> ELSE <<>>

(* The term _search_rom puts in its queries: "handler" transliterates      *)
(* inside _search_rom, "metadata_handler" in get_rom's call.               *)
QueryTerm == Unidecode(romTerm)

(* The games search of _search_rom.                                        *)
GamesQuery(k) ==
    [endpoint |-> "games", search |-> QueryTerm,
     where |-> <<"platforms", romPlatform>>,
     category_filter |-> CategoryFilter(CategoryOf(k)), attempt |-> k]

(* The name search on the search endpoint ("handler" only).                *)
AltQuery(k) ==
    [endpoint |-> "search", search |-> "",
     where |-> <<"game.platforms", romPlatform, "name", QueryTerm>>,
     category_filter |-> <<>>, attempt |-> k]

(* The fetch of the first hit by id ("handler" only).                      *)
ByIdQuery(k, id) ==
    [endpoint |-> "games", search |-> "",
     where |-> <<"id", id>>,
     category_filter |-> <<>>, attempt |-> k]

RECURSIVE ExactMatches(_, _)
(* [rom for rom in rs if name or slug equals the term, case-insensitively] *)
ExactMatches(rs, t) ==
    IF rs = <<>> THEN <<>>
    ELSE LET r == Head(rs)
             rest == ExactMatches(Tail(rs), t) IN
         IF Lower(r.name) = Lower(t) \/ Lower(r.slug) = Lower(t)
         THEN <<r>> \o rest
         ELSE rest

(* PickRom without the preference for exact matches: the first record of   *)
(* the list, whatever it is.                                               *)
PickRom_FirstRaw(rs, t) ==
    IF rs # <<>> THEN rs[1] ELSE EmptyDict

(* pydash.get(exact_matches or roms, "[0]", {})                            *)
PickRom(rs, t) ==
    LET exact_matches == ExactMatches(rs, t) IN
    IF exact_matches # <<>> THEN exact_matches[1]
    ELSE IF rs # <<>> THEN rs[1]
    ELSE EmptyDict

(***************************************************************************)
(* The provider's answers to lookups by id, and the IGDBRom records built  *)
(* from them.                                                              *)
(***************************************************************************)

(* dict.get(key, default)                                                  *)
Get(d, key, default) == IF key \in DOMAIN d THEN d[key] ELSE default

(* pydash.get(xs, "[0]", default)                                          *)
First(xs, default) == IF xs # <<>> THEN xs[1] ELSE default

(* `if x` on an id: None and 0 are falsy.                                  *)
Truthy(x) == x # None /\ x # 0

(* Ids handed to get_rom_by_id: of the three games, and one of no game.    *)
Ids == {1, 2, 3, 9}

(* What the games endpoint holds for `where id=`.                          *)
ProviderGame(id) ==
    IF \E g \in Games : g.id = id
    THEN <<CHOOSE g \in Games : g.id = id>>
    ELSE <<>>

(* What the covers endpoint holds for `where game=`.                       *)
ProviderCovers(id) ==
    LET g == ProviderGame(id) IN
    IF g # <<>> /\ "cover" \in DOMAIN g[1] THEN <<g[1].cover>> ELSE <<>>

(* What the screenshots endpoint holds for `where game=`.                  *)
ProviderScreenshots(id) ==
    LET g == ProviderGame(id) IN
    IF g # <<>> THEN Get(g[1], "screenshots", <<>>) ELSE <<>>

(* _normalize_cover_url: f"https:{url.replace('https:', '')}" if url != "" *)
(* else "", on the urls of the model.                                      *)
NormalizeCoverUrl(url) ==
    CASE url = "" -> ""
      [] url = "//igdb/t_thumb/co1.jpg" -> "https://igdb/t_thumb/co1.jpg"
      [] url = "//igdb/t_thumb/co3.jpg" -> "https://igdb/t_thumb/co3.jpg"
      [] url = "//igdb/t_thumb/sc1.jpg" -> "https://igdb/t_thumb/sc1.jpg"
      [] OTHER -> url

(* url.replace("t_thumb", "t_original")                                    *)
ThumbToOriginal(url) ==
    CASE url = "https://igdb/t_thumb/co1.jpg" -> "https://igdb/t_original/co1.jpg"
      [] url = "https://igdb/t_thumb/co3.jpg" -> "https://igdb/t_original/co3.jpg"
      [] url = "https://igdb/t_thumb/sc1.jpg" -> "https://igdb/t_original/sc1.jpg"
      [] url = "//igdb/t_thumb/co1.jpg" -> "//igdb/t_original/co1.jpg"
      [] url = "//igdb/t_thumb/co3.jpg" -> "//igdb/t_original/co3.jpg"
      [] url = "//igdb/t_thumb/sc1.jpg" -> "//igdb/t_original/sc1.jpg"
      [] OTHER -> url

(* url.replace("t_thumb", "t_cover_big")                                   *)
ThumbToCoverBig(url) ==
    CASE url = "https://igdb/t_thumb/co1.jpg" -> "https://igdb/t_cover_big/co1.jpg"
      [] url = "https://igdb/t_thumb/co3.jpg" -> "https://igdb/t_cover_big/co3.jpg"
      [] url = "https://igdb/t_thumb/sc1.jpg" -> "https://igdb/t_cover_big/sc1.jpg"
      [] url = "//igdb/t_thumb/co1.jpg" -> "//igdb/t_cover_big/co1.jpg"
      [] url = "//igdb/t_thumb/co3.jpg" -> "//igdb/t_cover_big/co3.jpg"
      [] url = "//igdb/t_thumb/sc1.jpg" -> "//igdb/t_cover_big/sc1.jpg"
      [] OTHER -> url

(* extract_metadata_from_igdb_rom, two of its keys.                        *)
ExtractMetadata(r) ==
    [first_release_date |-> Get(r, "first_release_date", None),
     genres |-> Get(r, "genres", <<>>)]

(* "handler": the IGDBRom(...) expression of get_rom and of get_rom_by_id, *)
(* from the dict r, the id to report and the default of the name.          *)
IGDBRomOf(r, id, name) ==
    LET shots == Get(r, "screenshots", <<>>) IN
    [igdb_id |-> id,
     name |-> Get(r, "name", name),
     slug |-> Get(r, "slug", ""),
     summary |-> Get(r, "summary", ""),
     url_cover |-> NormalizeCoverUrl(Get(Get(r, "cover", EmptyDict), "url", "")),
     url_screenshots |->
        [i \in 1..Len(shots) |-> ThumbToOriginal(NormalizeCoverUrl(Get(shots[i], "url", "")))],
     igdb_metadata |-> ExtractMetadata(r)]

(* "metadata_handler": the IGDBRom(...) of get_rom before the cover and    *)
(* the screenshots are fetched.                                            *)
IGDBRomBare(r, id, name) ==
    [igdb_id |-> id,
     slug |-> Get(r, "slug", ""),
     name |-> Get(r, "name", name),
     summary |-> Get(r, "summary", ""),
     url_cover |-> DEFAULT_URL_COVER_L,
     url_screenshots |-> <<>>]

(* _search_cover, from the answer of the covers endpoint.                  *)
CoverOf(covers) ==
    IF covers = <<>> THEN DEFAULT_URL_COVER_L ELSE NormalizeCoverUrl(covers[1].url)

RECURSIVE ScreenshotsOf(_)
(* _search_screenshots, from the answer of the screenshots endpoint.       *)
ScreenshotsOf(screenshots) ==
    IF screenshots = <<>> THEN <<>>
    ELSE LET r == Head(screenshots) IN
         (IF "url" \in DOMAIN r
          THEN <<ThumbToOriginal(NormalizeCoverUrl(r.url))>>
          ELSE <<>>) \o ScreenshotsOf(Tail(screenshots))

(* The return of get_rom once the `or` chain has yielded found.            *)
BuildRom(found) ==
    LET id == Get(found, "id", None) IN
    IF impl = "handler"
    THEN /\ igdb_rom' = IGDBRomOf(found, id, romTerm)
         /\ romPc' = "done"
    ELSE /\ igdb_rom' = IGDBRomBare(found, id, romTerm)
         /\ romPc' = IF Truthy(id) THEN "cover" ELSE "done"

(* EndAttempt with a chain that goes on to the less specific searches     *)
(* after a hit and lets a later hit replace an earlier one.                *)
EndAttempt_LaterReplaces(rs) ==
    LET found == PickRom(rs, QueryTerm)
        kept == IF IsEmptyDict(found) THEN rom ELSE found IN
    /\ roms' = rs
    /\ rom' = kept
    /\ attempts' = Append(attempts, found)
    /\ IF attempt < 3
       THEN /\ attempt' = attempt + 1
            /\ romPc' = "games"
            /\ igdb_rom' = igdb_rom
       ELSE /\ attempt' = attempt
            /\ BuildRom(kept)

(* EndAttempt with the `or` chain replaced by three unconditional calls,   *)
(* the last result kept.                                                   *)
EndAttempt_AllThree(rs) ==
    LET found == PickRom(rs, QueryTerm) IN
    /\ roms' = rs
    /\ rom' = found
    /\ attempts' = Append(attempts, found)
    /\ IF attempt < 3
       THEN /\ attempt' = attempt + 1
            /\ romPc' = "games"
            /\ igdb_rom' = igdb_rom
       ELSE /\ attempt' = attempt
            /\ BuildRom(found)

(* The end of one _search_rom call and the `or` chain of get_rom: a        *)
(* non-empty dict ends the chain, {} starts the next call, if any.         *)
EndAttempt(rs) ==
    LET found == PickRom(rs, QueryTerm) IN
    /\ roms' = rs
    /\ rom' = found
    /\ attempts' = Append(attempts, found)
    /\ IF IsEmptyDict(found) /\ attempt < 3
       THEN /\ attempt' = attempt + 1
            /\ romPc' = "games"
            /\ igdb_rom' = igdb_rom
       ELSE /\ attempt' = attempt
            /\ BuildRom(found)

tokenVars == <<impl, active, answers, kinds, lifetimes, horizon, now, cacheVars,
               issued, pc, phase, ret, hdr, token, expires_in, exchange, oauth,
               sends, refreshes, result, pytest>>

(* roms = self._request(games endpoint, search ... where platforms ...)    *)
SearchGames(answer) ==
    /\ romPc = "games"
    /\ queries' = Append(queries, GamesQuery(attempt))
    /\ IF answer = <<>> /\ impl = "handler"
       THEN /\ romPc' = "alt"
            /\ roms' = answer
            /\ UNCHANGED <<attempt, rom, attempts, igdb_rom>>
       ELSE EndAttempt(answer)
    /\ UNCHANGED <<romTerm, romPlatform, igdb_id, tokenVars, mergeVars, sideVars>>

(* if not roms: roms = self._request(search endpoint, ...)                 *)
SearchAlt(answer) ==
    /\ romPc = "alt"
    /\ queries' = Append(queries, AltQuery(attempt))
    /\ IF answer # <<>>
       THEN /\ romPc' = "byid"
            /\ roms' = answer
            /\ UNCHANGED <<attempt, rom, attempts, igdb_rom>>
       ELSE EndAttempt(answer)
    /\ UNCHANGED <<romTerm, romPlatform, igdb_id, tokenVars, mergeVars, sideVars>>

(* if roms: roms = self._request(games endpoint, where id=roms[0].game.id) *)
FetchById(answer) ==
    /\ romPc = "byid"
    /\ queries' = Append(queries, ByIdQuery(attempt, roms[1].id))
    /\ EndAttempt(answer)
    /\ UNCHANGED <<romTerm, romPlatform, igdb_id, tokenVars, mergeVars, sideVars>>

(* The request of _search_cover.                                           *)
CoverQuery(id) ==
    [endpoint |-> "covers", search |-> "",
     where |-> <<"game", id>>,
     category_filter |-> <<>>, attempt |-> 0]

(* The request of _search_screenshots.                                     *)
ScreenshotsQuery(id) ==
    [endpoint |-> "screenshots", search |-> "",
     where |-> <<"game", id>>,
     category_filter |-> <<>>, attempt |-> 0]

(* "metadata_handler": url_cover = self._search_cover(igdb_id).  The       *)
(* request returns what the provider holds, or [] when it fails softly.    *)
SearchCover(soft) ==
    LET id == igdb_rom.igdb_id
        covers == IF soft THEN <<>> ELSE ProviderCovers(id) IN
    /\ romPc = "cover"
    /\ queries' = Append(queries, CoverQuery(id))
    /\ igdb_rom' = [k \in DOMAIN igdb_rom \cup {"url_cover"} |->
                        IF k = "url_cover" THEN CoverOf(covers) ELSE igdb_rom[k]]
    /\ romPc' = "screenshots"
    /\ UNCHANGED <<romTerm, romPlatform, attempt, roms, rom, attempts, igdb_id,
                   tokenVars, mergeVars, sideVars>>

(* "metadata_handler": url_screenshots = self._search_screenshots(igdb_id), *)
(* the last request of get_rom and of get_rom_by_id.                       *)
SearchScreenshots(soft) ==
    LET id == igdb_rom.igdb_id
        screenshots == IF soft THEN <<>> ELSE ProviderScreenshots(id) IN
    /\ romPc = "screenshots"
    /\ queries' = Append(queries, ScreenshotsQuery(id))
    /\ igdb_rom' = [k \in DOMAIN igdb_rom \cup {"url_screenshots"} |->
                        IF k = "url_screenshots" THEN ScreenshotsOf(screenshots)
                        ELSE igdb_rom[k]]
    /\ romPc' = IF igdb_id # None THEN "matched" ELSE "done"
    /\ UNCHANGED <<romTerm, romPlatform, attempt, roms, rom, attempts, igdb_id,
                   tokenVars, mergeVars, sideVars>>

(* get_rom has normalised its search term and starts the `or` chain.       *)
InitRom ==
    /\ impl \in Impls
    /\ TokenOff
    /\ MergeOff
    /\ SideOff
    /\ romPc = "games"
    /\ romTerm \in Terms
    /\ romPlatform \in Platforms
    /\ attempt = 1
    /\ roms = <<>>
    /\ queries = <<>>
    /\ rom = EmptyDict
    /\ attempts = <<>>
    /\ igdb_id = None
    /\ igdb_rom = EmptyDict

NextRom ==
    \/ \E answer \in GameLists : SearchGames(answer)
    \/ \E answer \in GameLists : SearchAlt(answer)
    \/ \E answer \in GameLists : FetchById(answer)
    \/ \E soft \in BOOLEAN : SearchCover(soft)
    \/ \E soft \in BOOLEAN : SearchScreenshots(soft)

SpecRom == InitRom /\ [][NextRom]_vars

(* The games searches of the three attempts, in the order issued.          *)
GamesSearches == SelectSeq(queries, LAMBDA q : q.endpoint = "games" /\ q.search # "")

(* C4: the games search of the first attempt carries the main-game         *)
(* category filter, that of the second the expanded-game filter, that of   *)
(* the third no filter; the first and the third query differ.              *)
C4_ThreeDifferentRestrictions ==
    \A i \in 1..Len(GamesSearches) :
        LET q == GamesSearches[i] IN
        /\ q.attempt = i
        /\ q.attempt = 1 => q.category_filter = <<"& category=", MAIN_GAME_CATEGORY>>
        /\ q.attempt = 2 => q.category_filter = <<"& category=", EXPANDED_GAME_CATEGORY>>
        /\ q.attempt = 3 =>
              /\ q.category_filter = <<>>
              /\ [GamesSearches[1] EXCEPT !.attempt = 3] # q

(* The requests of _search_rom calls, by the call that issued them.        *)
SearchRequests(k) == SelectSeq(queries, LAMBDA q : q.attempt = k)

(* The requests of all _search_rom calls, in the order issued.             *)
AllSearchRequests == SelectSeq(queries, LAMBDA q : q.attempt # 0)

(* get_rom is past its `or` chain.                                         *)
PastChain == {"cover", "screenshots", "done"}

(* C13: the requests of the _search_rom calls appear in the order of the   *)
(* calls; a request of call k is issued only when the calls before k have  *)
(* all finished and returned {}; and a call that returned a record is the  *)
(* last one: get_rom is past its chain and no later call has sent a        *)
(* request.                                                                *)
C13_AttemptsSequential ==
    /\ [](Len(attempts) \in {attempt - 1, attempt})
    /\ [](\A i \in 1..Len(AllSearchRequests) :
            LET k == AllSearchRequests[i].attempt IN
            /\ k \in 1..3
            /\ i < Len(AllSearchRequests) => k <= AllSearchRequests[i + 1].attempt
            /\ Len(attempts) >= k - 1
            /\ \A j \in 1..(k - 1) : IsEmptyDict(attempts[j]))
    /\ [][\A k \in 1..3 :
            SearchRequests(k)' # SearchRequests(k) =>
                /\ Len(attempts) = k - 1
                /\ \A j \in 1..(k - 1) : IsEmptyDict(attempts[j])]_vars
    /\ [](\A j \in 1..Len(attempts) :
            ~IsEmptyDict(attempts[j]) =>
                /\ j = Len(attempts)
                /\ romPc \in PastChain
                /\ rom = attempts[j]
                /\ \A k \in (j + 1)..3 : SearchRequests(k) = <<>>)

(* C13 witness: the first call returned {}, the second a record, and the   *)
(* third call has sent nothing.                                            *)
C13_Witness ==
    /\ romPc = "done"
    /\ Len(attempts) = 2
    /\ IsEmptyDict(attempts[1])
    /\ ~IsEmptyDict(attempts[2])
    /\ SearchRequests(1) # <<>>
    /\ SearchRequests(2) # <<>>
    /\ SearchRequests(3) = <<>>

(* r is a record whose name or slug equals, case-insensitively, the search *)
(* term of the attempt: the transliterated term its queries carry.         *)
IsExactMatch(r) ==
    /\ ~IsEmptyDict(r)
    /\ \/ Lower(r.name) = Lower(QueryTerm)
       \/ Lower(r.slug) = Lower(QueryTerm)

(* The IGDBRom get_rom has returned, or is completing, is built from r.    *)
BuiltFrom(r) ==
    /\ romPc \in PastChain
    /\ rom = r
    /\ igdb_rom.igdb_id = r.id
    /\ igdb_rom.name = r.name
    /\ igdb_rom.slug = r.slug
    /\ igdb_rom.summary = Get(r, "summary", "")

(* C14: when the call made with MAIN_GAME_CATEGORY has returned an exact   *)
(* match, it is the only call made and the record of get_rom is built      *)
(* from that match; and when the call made with EXPANDED_GAME_CATEGORY has *)
(* returned a record, no third call is made and the record of get_rom is   *)
(* built from it.                                                          *)
C14_EarlierAttemptNeverOverridden ==
    /\ (Len(attempts) >= 1 /\ IsExactMatch(attempts[1])) =>
          /\ Len(attempts) = 1
          /\ SearchRequests(2) = <<>> /\ SearchRequests(3) = <<>>
          /\ BuiltFrom(attempts[1])
    /\ (Len(attempts) >= 2 /\ ~IsEmptyDict(attempts[2])) =>
          /\ Len(attempts) = 2
          /\ SearchRequests(3) = <<>>
          /\ BuiltFrom(attempts[2])

(* C14 witness: the first call was answered with two records, the second   *)
(* of them an exact match; get_rom has returned the record built from it.  *)
C14_Witness ==
    /\ romPc = "done"
    /\ Len(attempts) = 1
    /\ Len(roms) = 2
    /\ ~IsExactMatch(roms[1])
    /\ IsExactMatch(roms[2])
    /\ attempts[1] = roms[2]
    /\ igdb_rom.igdb_id = roms[2].id

(* r is what C15 asks of a search attempt whose result list is rs: the     *)
(* first exact match in provider order if there is one, else the first     *)
(* record, and the empty record for the empty list.                        *)
PreferredOf(rs, r) ==
    LET exact == {i \in 1..Len(rs) : IsExactMatch(rs[i])} IN
    /\ rs = <<>> => IsEmptyDict(r)
    /\ (rs # <<>> /\ exact = {}) => r = rs[1]
    /\ exact # {} =>
          \E i \in exact :
              /\ r = rs[i]
              /\ \A j \in exact : i <= j

(* C15: every step that ends a _search_rom call returns, of the result     *)
(* list the call ended with, the first record whose name or slug equals    *)
(* the search term case-insensitively if there is one, else the first      *)
(* record, else {}.                                                        *)
C15_ExactMatchPreferred ==
    [][attempts' # attempts =>
          /\ Len(attempts') = Len(attempts) + 1
          /\ PreferredOf(roms', attempts'[Len(attempts')])
          /\ rom' = attempts'[Len(attempts')]]_vars

(* C15 witness: the term with the accent, a result list whose second       *)
(* record matches it by slug and whose first does not match; the call      *)
(* returned the second.                                                    *)
C15_Witness ==
    /\ romTerm = "Pok'emon"
    /\ Len(roms) = 2
    /\ roms[1].name = "Zelda"
    /\ roms[2].slug = "pokemon"
    /\ attempts # <<>>
    /\ attempts[Len(attempts)] = roms[2]
    /\ rom = roms[2]

(***************************************************************************)
(* search_rom: the merge of the two providers' records.                    *)
(*                                                                         *)
(* A record is a python dict: a function from its keys to their values.    *)
(***************************************************************************)

(* Records of igdb_handler.get_matched_roms_by_name: IGDBRom(...) sets     *)
(* every key, an absent cover being "" and an absent summary "".           *)
IgdbRecords ==
    { [igdb_id |-> id, name |-> n, slug |-> "", summary |-> sm, url_cover |-> u,
       url_screenshots |-> <<>>] :
        id \in {1, 2}, n \in {"X", "Y"}, sm \in {"", "summary_a"}, u \in {"", "url_a"} }

(* What get_matched_roms_by_name returns: its records have different ids   *)
(* (the unique_ids filter); two of them may have the same name.            *)
IgdbLists ==
    { l \in ListsOf(IgdbRecords) :
        \A i, j \in 1..Len(l) : i # j => l[i].igdb_id # l[j].igdb_id }

(* Records of moby_handler.get_matched_roms_by_name.                       *)
MobyRecords ==
    { [moby_id |-> 7, name |-> n, slug |-> "", summary |-> sm, url_cover |-> u,
       url_screenshots |-> <<>>] :
        n \in {"X", "Y"}, sm \in {"", "summary_b"}, u \in {"", "url_b"} }

(* Records of the later provider that leave keys out: the input that the   *)
(* defaults of search_rom are there for.                                   *)
MobySparseRecords ==
    { [moby_id |-> 8, name |-> n] : n \in {"X", "Y"} }
    \cup { [moby_id |-> 9, name |-> "Z", summary |-> "summary_b"] }

MobyLists == ListsOf(MobyRecords \cup MobySparseRecords)

(* {**a, **b}: the keys of both, b's value where both have the key.        *)
Overlay(a, b) ==
    [k \in DOMAIN a \cup DOMAIN b |-> IF k \in DOMAIN b THEN b[k] ELSE a[k]]

(* d[item["name"]] = item on a dict kept as its values in insertion order: *)
(* an existing key keeps its place and takes the new value.                *)
DictSet(d, item) ==
    IF \E i \in 1..Len(d) : d[i].name = item.name
    THEN [i \in 1..Len(d) |-> IF d[i].name = item.name THEN item ELSE d[i]]
    ELSE Append(d, item)

(* d.get(key, {})                                                          *)
DictGet(d, key) ==
    IF \E i \in 1..Len(d) : d[i].name = key
    THEN d[CHOOSE i \in 1..Len(d) : d[i].name = key]
    ELSE EmptyDict

(* {item["name"]: item for item in items}                                  *)
RECURSIVE FromItems(_, _)
FromItems(d, items) ==
    IF items = <<>> THEN d
    ELSE FromItems(DictSet(d, Head(items)), Tail(items))

(* MergeLater that only fills the entries of the first provider: a record *)
(* of the later provider with a new title is dropped.                      *)
RECURSIVE MergeLater_DropsNewTitles(_, _)
MergeLater_DropsNewTitles(d, items) ==
    IF items = <<>> THEN d
    ELSE MergeLater_DropsNewTitles(
            IF IsEmptyDict(DictGet(d, Head(items).name)) THEN d
            ELSE DictSet(d, Overlay(Head(items), DictGet(d, Head(items).name))),
            Tail(items))

(* MergeLater with the two halves of the dict display exchanged:           *)
(* {**merged_dict.get(name, {}), **item}, the later provider overriding.   *)
RECURSIVE MergeLater_LaterOverrides(_, _)
MergeLater_LaterOverrides(d, items) ==
    IF items = <<>> THEN d
    ELSE MergeLater_LaterOverrides(
            DictSet(d, Overlay(DictGet(d, Head(items).name), Head(items))),
            Tail(items))

(* for item in moby: merged_dict[name] = {**item, **merged_dict.get(name, {})} *)
RECURSIVE MergeLater(_, _)
MergeLater(d, items) ==
    IF items = <<>> THEN d
    ELSE MergeLater(
            DictSet(d, Overlay(Head(items), DictGet(d, Head(items).name))),
            Tail(items))

SearchDefaults ==
    [slug |-> "", name |-> "", summary |-> "", url_cover |-> DEFAULT_URL_COVER_L,
     url_screenshots |-> <<>>]

(* WithDefaults with the two halves of the dict display exchanged:         *)
(* {**item, **defaults}, the defaults overriding the merged values.        *)
WithDefaults_DefaultsOverride(d) == [i \in 1..Len(d) |-> Overlay(d[i], SearchDefaults)]

(* The list comprehension that completes every merged record.              *)
WithDefaults(d) == [i \in 1..Len(d) |-> Overlay(SearchDefaults, d[i])]

(* search_rom from the merge to the return.                                *)
Merge ==
    /\ mergePc = "input"
    /\ merged_dict' = MergeLater(FromItems(<<>>, igdb_matched_roms), moby_matched_roms)
    /\ matched_roms' = WithDefaults(merged_dict')
    /\ mergePc' = "done"
    /\ UNCHANGED <<igdb_matched_roms, moby_matched_roms>>
    /\ UNCHANGED <<tokenVars, romVars, sideVars>>

(* The two providers have answered a search by name.                       *)
InitMerge ==
    /\ impl = "handler"
    /\ TokenOff
    /\ RomOff
    /\ SideOff
    /\ mergePc = "input"
    /\ igdb_matched_roms \in IgdbLists
    /\ moby_matched_roms \in MobyLists
    /\ merged_dict = <<>>
    /\ matched_roms = <<>>

NextMerge == Merge

SpecMerge == InitMerge /\ [][NextMerge]_vars

(***************************************************************************)
(* get_rom_by_id, get_matched_roms_by_id and search_rom with search_by=id. *)
(***************************************************************************)

(* Answers of moby_handler.get_matched_roms_by_id: no record or one.       *)
MobyByIdAnswers == {<<>>} \cup { <<m>> : m \in MobyRecords }

(* get_rom_by_id up to its IGDBRom: the request `where id=`, rom = first   *)
(* record or {}.  "handler" builds the record from rom alone;              *)
(* "metadata_handler" goes on to _search_cover and _search_screenshots.    *)
GetRomById(soft) ==
    LET answer == IF soft THEN <<>> ELSE ProviderGame(igdb_id)
        r == First(answer, EmptyDict) IN
    /\ romPc = "id_games"
    /\ queries' = Append(queries, ByIdQuery(0, igdb_id))
    /\ roms' = answer
    /\ rom' = r
    /\ IF impl = "handler"
       THEN /\ igdb_rom' = IGDBRomOf(r, igdb_id, "")
            /\ romPc' = "matched"
       ELSE /\ igdb_rom' = [igdb_id |-> igdb_id,
                            slug |-> Get(r, "slug", ""),
                            name |-> Get(r, "name", ""),
                            summary |-> Get(r, "summary", "")]
            /\ romPc' = "cover"
    /\ UNCHANGED <<romTerm, romPlatform, attempt, attempts, igdb_id, tokenVars,
                   mergeVars, sideVars>>

(* get_matched_roms_by_id after its get_rom_by_id call: the cover's        *)
(* thumbnail token replaced, the record returned as a list of one.  In     *)
(* search_rom the list of the later provider comes next, then the merge.   *)
GetMatchedRomsById(moby) ==
    /\ romPc = "matched"
    /\ igdb_rom' = [igdb_rom EXCEPT !.url_cover = ThumbToCoverBig(@)]
    /\ igdb_matched_roms' = <<igdb_rom'>>
    /\ romPc' = "done"
    /\ IF impl = "handler"
       THEN /\ moby_matched_roms' = moby
            /\ mergePc' = "input"
       ELSE /\ moby = <<>>
            /\ UNCHANGED <<moby_matched_roms, mergePc>>
    /\ UNCHANGED <<merged_dict, matched_roms>>
    /\ UNCHANGED <<romTerm, romPlatform, attempt, roms, queries, rom, attempts,
                   igdb_id, tokenVars, sideVars>>

(* A lookup by id starts.                                                  *)
InitById ==
    /\ impl \in Impls
    /\ TokenOff
    /\ MergeOff
    /\ SideOff
    /\ romPc = "id_games"
    /\ romTerm = ""
    /\ romPlatform = 0
    /\ attempt = 0
    /\ roms = <<>>
    /\ queries = <<>>
    /\ rom = EmptyDict
    /\ attempts = <<>>
    /\ igdb_id \in Ids
    /\ igdb_rom = EmptyDict

NextById ==
    \/ \E soft \in BOOLEAN : GetRomById(soft)
    \/ \E soft \in BOOLEAN : SearchCover(soft)
    \/ \E soft \in BOOLEAN : SearchScreenshots(soft)
    \/ \E moby \in MobyByIdAnswers : GetMatchedRomsById(moby)
    \/ Merge

SpecById == InitById /\ [][NextById]_vars

(* get_rom_by_id has returned: igdb_rom is its record.                     *)
ByIdReturned == igdb_id # None /\ romPc \in {"matched", "done"}

(* C16: a lookup by id returns one record with the id it was given, and    *)
(* when the games request yielded no record (no such id, or a soft         *)
(* failure) its name, slug and summary are "" and its screenshot list is   *)
(* empty; get_matched_roms_by_id returns the list of that one record.      *)
C16_ByIdOneRecordWithDefaults ==
    ByIdReturned =>
        /\ igdb_rom.igdb_id = igdb_id
        /\ romPc = "done" => igdb_matched_roms = <<igdb_rom>>
        /\ IsEmptyDict(rom) =>
              /\ igdb_rom.name = ""
              /\ igdb_rom.slug = ""
              /\ igdb_rom.summary = ""
              /\ igdb_rom.url_screenshots = <<>>

(* The records search_rom returns that carry the id looked up.             *)
ReturnedForId ==
    {i \in 1..Len(matched_roms) :
        "igdb_id" \in DOMAIN matched_roms[i] /\ matched_roms[i].igdb_id = igdb_id}

(* C17: for an id the provider has no game for, the record of              *)
(* get_rom_by_id has the default cover image as its cover, and so has the  *)
(* record search_rom returns for it.                                       *)
C17_MissingIdHasDefaultCover ==
    (ByIdReturned /\ ProviderGame(igdb_id) = <<>>) =>
        /\ igdb_rom.url_cover = DEFAULT_URL_COVER_L
        /\ mergePc = "done" =>
              /\ ReturnedForId # {}
              /\ \A i \in ReturnedForId :
                    matched_roms[i].url_cover = DEFAULT_URL_COVER_L

(* The entry of the returned list for a title.                             *)
Entry(n) == matched_roms[CHOOSE i \in 1..Len(matched_roms) : matched_roms[i].name = n]

(* C3: when both providers return exactly one record for a title, every    *)
(* field the first provider left empty has the later provider's value in   *)
(* the merged record.                                                      *)
C3_LaterFillsEmptyFields ==
    mergePc = "done" =>
        \A i \in 1..Len(igdb_matched_roms), j \in 1..Len(moby_matched_roms) :
            LET a == igdb_matched_roms[i]
                b == moby_matched_roms[j] IN
            (/\ a.name = b.name
             /\ \A k \in 1..Len(igdb_matched_roms) : igdb_matched_roms[k].name = a.name => k = i
             /\ \A k \in 1..Len(moby_matched_roms) : moby_matched_roms[k].name = a.name => k = j) =>
                \A f \in {"summary", "url_cover"} :
                    (a[f] = "" /\ f \in DOMAIN b) => Entry(a.name)[f] = b[f]

(* The string-valued fields of a record, and the id of the first provider. *)
TextFields == {"name", "slug", "summary", "url_cover"}

(* Every non-empty field of the first provider's record a has a's value    *)
(* in the entry returned for a's title.                                    *)
KeptInEntry(a) ==
    /\ Entry(a.name).igdb_id = a.igdb_id
    /\ \A f \in TextFields : a[f] # "" => Entry(a.name)[f] = a[f]

(* C18, as stated: for every record of the first provider and every        *)
(* record of the later provider with the same title, each non-empty field  *)
(* of the first provider's record has that value in the merged record.     *)
C18_FirstProviderFieldsKept ==
    mergePc = "done" =>
        \A i \in 1..Len(igdb_matched_roms), j \in 1..Len(moby_matched_roms) :
            igdb_matched_roms[i].name = moby_matched_roms[j].name =>
                KeptInEntry(igdb_matched_roms[i])

(* C18, amended: the same for the record of the first provider that the    *)
(* mapping holds for the title, the last one the provider returned with    *)
(* it.                                                                     *)
C18_MappedFirstProviderFieldsKept ==
    mergePc = "done" =>
        \A i \in 1..Len(igdb_matched_roms), j \in 1..Len(moby_matched_roms) :
            (/\ igdb_matched_roms[i].name = moby_matched_roms[j].name
             /\ \A k \in (i + 1)..Len(igdb_matched_roms) :
                    igdb_matched_roms[k].name # igdb_matched_roms[i].name) =>
                KeptInEntry(igdb_matched_roms[i])

(* C18 witness: both providers returned a record for X, with different     *)
(* non-empty summaries and covers; the merged record has the first         *)
(* provider's.                                                             *)
C18_Witness ==
    /\ mergePc = "done"
    /\ Len(igdb_matched_roms) = 1 /\ Len(moby_matched_roms) = 1
    /\ igdb_matched_roms[1].name = "X" /\ moby_matched_roms[1].name = "X"
    /\ igdb_matched_roms[1].summary = "summary_a"
    /\ igdb_matched_roms[1].url_cover = "url_a"
    /\ "summary" \in DOMAIN moby_matched_roms[1]
    /\ moby_matched_roms[1].summary = "summary_b"
    /\ moby_matched_roms[1].url_cover = "url_b"
    /\ Len(matched_roms) = 1
    /\ matched_roms[1].summary = "summary_a"
    /\ matched_roms[1].url_cover = "url_a"

(* The titles in a list of records.                                        *)
Titles(l) == { l[i].name : i \in 1..Len(l) }

(* Record r is in the returned list as an entry with r's values.           *)
KeptAsEntry(r) ==
    \E i \in 1..Len(matched_roms) :
        /\ DOMAIN r \subseteq DOMAIN matched_roms[i]
        /\ \A f \in DOMAIN r : matched_roms[i][f] = r[f]

(* The returned list has exactly one entry for each title either provider  *)
(* returned.                                                               *)
OneEntryPerTitle ==
    /\ Titles(matched_roms) = Titles(igdb_matched_roms) \cup Titles(moby_matched_roms)
    /\ \A i, j \in 1..Len(matched_roms) :
          matched_roms[i].name = matched_roms[j].name => i = j

(* C19, as stated: every record of one provider whose title the other      *)
(* provider did not return is in the returned list with its values, and    *)
(* the returned list has exactly one entry per title.                      *)
C19_EveryUncollidedRecordKept ==
    mergePc = "done" =>
        /\ \A i \in 1..Len(igdb_matched_roms) :
              igdb_matched_roms[i].name \notin Titles(moby_matched_roms) =>
                  KeptAsEntry(igdb_matched_roms[i])
        /\ \A j \in 1..Len(moby_matched_roms) :
              moby_matched_roms[j].name \notin Titles(igdb_matched_roms) =>
                  KeptAsEntry(moby_matched_roms[j])
        /\ OneEntryPerTitle

(* C19, amended: every record whose title no other record of either        *)
(* provider has is in the returned list with its values, and the returned  *)
(* list has exactly one entry per title.                                   *)
C19_UniqueTitleRecordKept ==
    mergePc = "done" =>
        /\ \A i \in 1..Len(igdb_matched_roms) :
              (/\ igdb_matched_roms[i].name \notin Titles(moby_matched_roms)
               /\ \A k \in 1..Len(igdb_matched_roms) :
                      igdb_matched_roms[k].name = igdb_matched_roms[i].name => k = i) =>
                  KeptAsEntry(igdb_matched_roms[i])
        /\ \A j \in 1..Len(moby_matched_roms) :
              (/\ moby_matched_roms[j].name \notin Titles(igdb_matched_roms)
               /\ \A k \in 1..Len(moby_matched_roms) :
                      moby_matched_roms[k].name = moby_matched_roms[j].name => k = j) =>
                  KeptAsEntry(moby_matched_roms[j])
        /\ OneEntryPerTitle

(* C19 witness: the first provider returned X, the later one Y; the        *)
(* returned list has the two entries, each with its provider's values.     *)
C19_Witness ==
    /\ mergePc = "done"
    /\ Len(igdb_matched_roms) = 1 /\ Len(moby_matched_roms) = 1
    /\ igdb_matched_roms[1].name = "X" /\ moby_matched_roms[1].name = "Y"
    /\ igdb_matched_roms[1].summary = "summary_a"
    /\ "url_cover" \in DOMAIN moby_matched_roms[1]
    /\ moby_matched_roms[1].url_cover = "url_b"
    /\ Len(matched_roms) = 2
    /\ matched_roms[1].igdb_id = igdb_matched_roms[1].igdb_id
    /\ matched_roms[1].summary = "summary_a"
    /\ matched_roms[2].moby_id = moby_matched_roms[1].moby_id
    /\ matched_roms[2].url_cover = "url_b"

(* The fields every returned record must have.                             *)
SchemaFields == {"slug", "name", "summary", "url_cover", "url_screenshots"}

(* The default of a schema field.                                          *)
DefaultOf(f) ==
    CASE f = "url_cover" -> DEFAULT_URL_COVER_L
      [] f = "url_screenshots" -> <<>>
      [] OTHER -> ""

(* C20: the returned list has one record per merged record, in order;      *)
(* each has all of slug, name, summary, url_cover and url_screenshots; a    *)
(* field the merged record lacks has its default, and every field the      *)
(* merged record has keeps its merged value.                               *)
C20_UniformSchema ==
    mergePc = "done" =>
        /\ Len(matched_roms) = Len(merged_dict)
        /\ \A i \in 1..Len(matched_roms) :
              LET out == matched_roms[i]
                  merged == merged_dict[i] IN
              /\ SchemaFields \subseteq DOMAIN out
              /\ DOMAIN out = SchemaFields \cup DOMAIN merged
              /\ \A f \in SchemaFields \ DOMAIN merged : out[f] = DefaultOf(f)
              /\ \A f \in DOMAIN merged : out[f] = merged[f]

(* C20 witness: a record of the later provider with a name only, next to   *)
(* a full record of the first provider with an empty cover: the one is     *)
(* returned with the four defaults, the other as it was merged.            *)
C20_Witness ==
    /\ mergePc = "done"
    /\ Len(matched_roms) = 2
    /\ DOMAIN merged_dict[2] = {"moby_id", "name"}
    /\ matched_roms[2].url_cover = DEFAULT_URL_COVER_L
    /\ matched_roms[2].summary = ""
    /\ matched_roms[2].slug = ""
    /\ matched_roms[2].url_screenshots = <<>>
    /\ "igdb_id" \in DOMAIN merged_dict[1]
    /\ merged_dict[1].url_cover = ""
    /\ matched_roms[1].url_cover = ""
    /\ matched_roms[1].summary = "summary_a"

(***************************************************************************)
(* The record get_rom returns.                                             *)
(***************************************************************************)

(* The top-level fields of a normalised rom record.                        *)
NormalizedFields ==
    {"igdb_id", "name", "slug", "summary", "url_cover", "url_screenshots",
     "igdb_metadata"}

(* C21: every record get_rom returns is fully populated: each top-level    *)
(* field (provider id, title, slug, summary, cover URL, screenshot list,   *)
(* metadata block) is in the record and is not None, also when the search  *)
(* found nothing.                                                          *)
C21_ReturnedRecordFullyPopulated ==
    (romPc = "done" /\ igdb_id = None) =>
        /\ NormalizedFields \subseteq DOMAIN igdb_rom
        /\ igdb_rom.igdb_id # None

(***************************************************************************)
(* get_oauth_token under the tests.                                        *)
(***************************************************************************)

(* A step of client c that is a whole get_oauth_token call under the tests. *)
BypassedCall(c) == pytest /\ pc[c] \in {"new", "ready"} /\ pc'[c] # pc[c]

(* C27: under the tests every get_oauth_token call returns the fixed token *)
(* "test_token" in one step: it reads no cache key (its local `token` is   *)
(* never assigned and the expiry read is never reached), writes no cache   *)
(* key and makes no credential exchange.                                   *)
C27_BypassReturnsSentinel ==
    /\ [][\A c \in Clients :
            BypassedCall(c) =>
                /\ hdr'[c] = TestToken
                /\ oauth'[c].returned = TestToken
                /\ pc'[c] \in {"ready", "send1"}
                /\ UNCHANGED <<cacheVars, issued, token, exchange, expires_in>>]_vars
    /\ [](pytest => \A c \in Clients : pc[c] # "oauth_get_expiry")

(* Under the tests both calls of a client, the one of __init__ and the one *)
(* of a decorated method, have returned the fixed token with the cache     *)
(* still empty.                                                            *)
C27_Witness ==
    /\ pytest
    /\ pc[1] = "send1"
    /\ phase[1] = "call"
    /\ hdr[1] = TestToken
    /\ oauth[1].how = "test"
    /\ cacheToken = EmptyToken
    /\ issued = 0

(***************************************************************************)
(* get_rom from its first statement: the file name normaliser with its     *)
(* index lookups, then the search; and scan_rom around it.                 *)
(***************************************************************************)

PS2_IGDB_ID == 8
SWITCH_IGDB_ID == 130
ARCADE_IGDB_IDS == {52, 79, 80}

PS2_OPL_INDEX_FILE == "fixtures/ps2_opl_index.json"
SWITCH_TITLEDB_INDEX_FILE == "fixtures/switch_titledb.json"
SWITCH_PRODUCT_ID_FILE == "fixtures/switch_product_ids.json"
MAME_XML_FILE == "fixtures/mame.xml"

IndexFiles ==
    {PS2_OPL_INDEX_FILE, SWITCH_TITLEDB_INDEX_FILE, SWITCH_PRODUCT_ID_FILE, MAME_XML_FILE}

(* The file names handed to get_rom: a plain title with a region tag;      *)
(* four disc serials (three in the index, one not); a title id; a product  *)
(* id as main application (last hex digits 000), as update (800) and with  *)
(* another digit in the third place from the end (100); a name with both   *)
(* ids; two arcade set names (one in the index, one not).                  *)
FileNames ==
    {"Zelda II (USA).iso",
     "SCUS_123.45.iso", "SLUS_200.62.iso", "SLPS_250.50.iso", "SLES_999.99.iso",
     "Zelda [70010000000025].nsp",
     "Pokemon [0100F2C0115B6000].nsp", "Pokemon [0100F2C0115B6800].nsp",
     "Pokemon [0100F2C0115B6100].nsp",
     "Zelda [70010000000025][0100F2C0115B6000].nsp",
     "sf2.zip", "unknown.zip"}

(* platform_idgb_id: one platform without index, the optical-disc one, the *)
(* handheld/console one and an arcade one.                                 *)
ScanPlatforms == {4, PS2_IGDB_ID, SWITCH_IGDB_ID, 52}

(* fs_rom_handler.get_file_name_with_no_tags on the strings of the model:  *)
(* the extension and the bracketed and parenthesised groups removed.       *)
NoTags(name) ==
    CASE name = "Zelda II (USA).iso" -> "Zelda II"
      [] name = "SCUS_123.45.iso" -> "SCUS_123.45"
      [] name = "SLUS_200.62.iso" -> "SLUS_200.62"
      [] name = "SLPS_250.50.iso" -> "SLPS_250.50"
      [] name = "SLES_999.99.iso" -> "SLES_999.99"
      [] name = "Zelda [70010000000025].nsp" -> "Zelda"
      [] name = "Pokemon [0100F2C0115B6000].nsp" -> "Pokemon"
      [] name = "Pokemon [0100F2C0115B6800].nsp" -> "Pokemon"
      [] name = "Pokemon [0100F2C0115B6100].nsp" -> "Pokemon"
      [] name = "Zelda [70010000000025][0100F2C0115B6000].nsp" -> "Zelda"
      [] name = "sf2.zip" -> "sf2"
      [] name = "unknown.zip" -> "unknown"
      [] name = "Street Fighter II (World)" -> "Street Fighter II"
      [] OTHER -> name

(* re.match(PS2_OPL_REGEX, file_name).group(1), "" when there is no match. *)
OplSerial(name) ==
    CASE name = "SCUS_123.45.iso" -> "SCUS_123.45"
      [] name = "SLUS_200.62.iso" -> "SLUS_200.62"
      [] name = "SLPS_250.50.iso" -> "SLPS_250.50"
      [] name = "SLES_999.99.iso" -> "SLES_999.99"
      [] OTHER -> ""

(* re.search(SWITCH_TITLEDB_REGEX, file_name).group(1), "" when there is   *)
(* no match.                                                               *)
TitleId(name) ==
    CASE name = "Zelda [70010000000025].nsp" -> "70010000000025"
      [] name = "Zelda [70010000000025][0100F2C0115B6000].nsp" -> "70010000000025"
      [] OTHER -> ""

(* re.search(SWITCH_PRODUCT_ID_REGEX, file_name).group(1), {} when there   *)
(* is no match.  The sixteen hex digits are kept as the first thirteen     *)
(* (head) and the value of the last three (tail, 0 .. 16^3 - 1).           *)
ProductId(name) ==
    CASE name = "Pokemon [0100F2C0115B6000].nsp" -> [head |-> "0100F2C0115B6", tail |-> 0]
      [] name = "Pokemon [0100F2C0115B6800].nsp" -> [head |-> "0100F2C0115B6", tail |-> 2048]
      [] name = "Pokemon [0100F2C0115B6100].nsp" -> [head |-> "0100F2C0115B6", tail |-> 256]
      [] name = "Zelda [70010000000025][0100F2C0115B6000].nsp" ->
            [head |-> "0100F2C0115B6", tail |-> 0]
      [] OTHER -> EmptyDict

(* product_id = list(product_id); product_id[-3] = "0"; "".join(...):      *)
(* the third hex digit from the end becomes 0.                             *)
MaskProductId(id) == [id EXCEPT !.tail = @ % 256]

(* The content of ps2_opl_index.json.  "(tm)" stands for the trademark     *)
(* symbol U+2122, "'e" for an accented e.                                  *)
OplIndex ==
    "SCUS_123.45" :> [Name |-> "Zelda II"] @@
    "SLUS_200.62" :> [Name |-> "Okami(tm)"] @@
    "SLPS_250.50" :> [Name |-> "Pok'emon"]

(* The content of switch_titledb.json.                                     *)
TitledbIndex == "70010000000025" :> [name |-> "zelda"]

(* The content of switch_product_ids.json: main applications.              *)
ProductIdIndex == [head |-> "0100F2C0115B6", tail |-> 0] :> [name |-> "Pok'emon"]

(* mame_index["menu"]["game"] of mame.xml; name is the attribute @name.    *)
MameGames == <<[name |-> "sf2", description |-> "Street Fighter II (World)"]>>

(* _normalize_search_term on the strings of the model: the trademark,      *)
(* registered, copyright and service mark symbols removed, then strip().   *)
NormalizeSearchTerm(term) == IF term = "Okami(tm)" THEN "Okami" ELSE term

(* One open() of an index file.                                            *)
Open(file, present) == [file |-> file, found |-> file \in present]

(* try: open(file) / except FileNotFoundError: await task.run(force=True); *)
(* try: open(file) / except FileNotFoundError: log.error(...).             *)
(* made: the files the refresh task has written.  The result: the open()   *)
(* calls, the tasks run, the files on disk afterwards, and whether the     *)
(* index was read.                                                         *)
LoadIndex(file, task, made) ==
    IF file \in files
    THEN [opens |-> <<Open(file, files)>>, tasks |-> <<>>, files |-> files,
          loaded |-> TRUE]
    ELSE LET after == files \cup made IN
         [opens |-> <<Open(file, files), Open(file, after)>>, tasks |-> <<task>>,
          files |-> after, loaded |-> file \in after]

(* The files each refresh task writes when it succeeds.                    *)
TaskFiles(task) ==
    IF task = "update_switch_titledb_task"
    THEN {SWITCH_TITLEDB_INDEX_FILE, SWITCH_PRODUCT_ID_FILE}
    ELSE {MAME_XML_FILE}

(* What the steps of the file name normaliser leave alone.                 *)
searchVars == <<romPlatform, attempt, roms, queries, rom, attempts, igdb_id, igdb_rom>>

(* search_term = fs_rom_handler.get_file_name_with_no_tags(file_name)      *)
GetRomStart ==
    /\ romPc = "start"
    /\ romTerm' = NoTags(file_name)
    /\ romPc' = "ps2"
    /\ UNCHANGED <<searchVars, tokenVars, mergeVars, sideVars>>

(* Ps2OplFormat with the test of the platform id lost: the serial of any   *)
(* file name that has one is looked up.                                    *)
Ps2OplFormat_AnyPlatform ==
    LET serial_code == OplSerial(file_name)
        index_entry == Get(OplIndex, serial_code, EmptyDict) IN
    /\ romPc = "ps2"
    /\ IF serial_code # ""
       THEN /\ loads' = Append(loads, Open(PS2_OPL_INDEX_FILE, files))
            /\ IF PS2_OPL_INDEX_FILE \in files
               THEN /\ romTerm' = IF ~IsEmptyDict(index_entry)
                                  THEN index_entry.Name ELSE romTerm
                    /\ romPc' = "titledb"
                    /\ exception' = exception
               ELSE /\ romTerm' = romTerm
                    /\ romPc' = "raised"
                    /\ exception' = [NoException EXCEPT !.raised = "FileNotFoundError"]
       ELSE /\ romPc' = "titledb"
            /\ UNCHANGED <<loads, romTerm, exception>>
    /\ UNCHANGED <<searchVars, tokenVars, mergeVars, nameVars, posts, retrying, file_name, files, refreshTasks,
                   product_id, rom_attrs, platformVars>>

(* Ps2OplFormat with the entry of the index ignored: the search term stays *)
(* the file name without its tags.                                         *)
Ps2OplFormat_EntryIgnored ==
    LET serial_code == OplSerial(file_name) IN
    /\ romPc = "ps2"
    /\ IF romPlatform = PS2_IGDB_ID /\ serial_code # ""
       THEN /\ loads' = Append(loads, Open(PS2_OPL_INDEX_FILE, files))
            /\ romTerm' = romTerm
            /\ IF PS2_OPL_INDEX_FILE \in files
               THEN /\ romPc' = "titledb"
                    /\ exception' = exception
               ELSE /\ romPc' = "raised"
                    /\ exception' = [NoException EXCEPT !.raised = "FileNotFoundError"]
       ELSE /\ romPc' = "titledb"
            /\ UNCHANGED <<loads, romTerm, exception>>
    /\ UNCHANGED <<searchVars, tokenVars, mergeVars, nameVars, posts, retrying, file_name, files, refreshTasks,
                   product_id, rom_attrs, platformVars>>

(* if platform_idgb_id == PS2_IGDB_ID and match:                           *)
(*     search_term = await self._ps2_opl_format(match, search_term)        *)
(* _ps2_opl_format opens the index file outside any try block: when the    *)
(* file is missing FileNotFoundError leaves get_rom.                       *)
Ps2OplFormat ==
    LET serial_code == OplSerial(file_name)
        index_entry == Get(OplIndex, serial_code, EmptyDict) IN
    /\ romPc = "ps2"
    /\ IF romPlatform = PS2_IGDB_ID /\ serial_code # ""
       THEN /\ loads' = Append(loads, Open(PS2_OPL_INDEX_FILE, files))
            /\ IF PS2_OPL_INDEX_FILE \in files
               THEN /\ romTerm' = IF ~IsEmptyDict(index_entry)
                                  THEN index_entry.Name ELSE romTerm
                    /\ romPc' = "titledb"
                    /\ exception' = exception
               ELSE /\ romTerm' = romTerm
                    /\ romPc' = "raised"
                    /\ exception' = [NoException EXCEPT !.raised = "FileNotFoundError"]
       ELSE /\ romPc' = "titledb"
            /\ UNCHANGED <<loads, romTerm, exception>>
    /\ UNCHANGED <<searchVars, tokenVars, mergeVars, nameVars, posts, retrying, file_name, files, refreshTasks,
                   product_id, rom_attrs, platformVars>>

(* if platform_idgb_id == SWITCH_IGDB_ID and match:                        *)
(*     search_term = await self._switch_titledb_format(match, search_term) *)
SwitchTitledbFormat(made) ==
    LET title_id == TitleId(file_name)
        load == LoadIndex(SWITCH_TITLEDB_INDEX_FILE, "update_switch_titledb_task", made)
        titledb_index == IF load.loaded THEN TitledbIndex ELSE EmptyDict
        index_entry == Get(titledb_index, title_id, EmptyDict) IN
    /\ romPc = "titledb"
    /\ romPc' = "productid"
    /\ IF romPlatform = SWITCH_IGDB_ID /\ title_id # ""
       THEN /\ loads' = loads \o load.opens
            /\ refreshTasks' = refreshTasks \o load.tasks
            /\ files' = load.files
            /\ romTerm' = IF ~IsEmptyDict(index_entry) THEN index_entry.name ELSE romTerm
       ELSE /\ made = {}
            /\ UNCHANGED <<loads, refreshTasks, files, romTerm>>
    /\ UNCHANGED <<searchVars, tokenVars, mergeVars, nameVars, posts, retrying, file_name, product_id, exception,
                   rom_attrs, platformVars>>

(* if platform_idgb_id == SWITCH_IGDB_ID and match:                        *)
(*     search_term = await self._switch_productid_format(match, search_term) *)
SwitchProductIdFormat(made) ==
    LET match == ProductId(file_name)
        key == MaskProductId(match)
        load == LoadIndex(SWITCH_PRODUCT_ID_FILE, "update_switch_titledb_task", made)
        product_id_index == IF load.loaded THEN ProductIdIndex ELSE EmptyDict
        index_entry == Get(product_id_index, key, EmptyDict) IN
    /\ romPc = "productid"
    /\ romPc' = "mame"
    /\ IF romPlatform = SWITCH_IGDB_ID /\ ~IsEmptyDict(match)
       THEN /\ product_id' = key
            /\ loads' = loads \o load.opens
            /\ refreshTasks' = refreshTasks \o load.tasks
            /\ files' = load.files
            /\ romTerm' = IF ~IsEmptyDict(index_entry) THEN index_entry.name ELSE romTerm
       ELSE /\ made = {}
            /\ UNCHANGED <<product_id, loads, refreshTasks, files, romTerm>>
    /\ UNCHANGED <<searchVars, tokenVars, mergeVars, nameVars, posts, retrying, file_name, exception, rom_attrs,
                   platformVars>>

(* if platform_idgb_id in ARCADE_IGDB_IDS:                                 *)
(*     search_term = await self._mame_format(search_term)                  *)
MameFormat(made) ==
    LET load == LoadIndex(MAME_XML_FILE, "update_mame_xml_task", made)
        games == IF load.loaded THEN MameGames ELSE <<>>
        index_entry == SelectSeq(games, LAMBDA game : game.name = romTerm) IN
    /\ romPc = "mame"
    /\ romPc' = "normalize"
    /\ IF romPlatform \in ARCADE_IGDB_IDS
       THEN /\ loads' = loads \o load.opens
            /\ refreshTasks' = refreshTasks \o load.tasks
            /\ files' = load.files
            /\ romTerm' = IF index_entry # <<>>
                          THEN NoTags(Get(index_entry[1], "description", romTerm))
                          ELSE romTerm
       ELSE /\ made = {}
            /\ UNCHANGED <<loads, refreshTasks, files, romTerm>>
    /\ UNCHANGED <<searchVars, tokenVars, mergeVars, nameVars, posts, retrying, file_name, product_id, exception,
                   rom_attrs, platformVars>>

(* search_term = self._normalize_search_term(search_term); the `or` chain  *)
(* starts with its first _search_rom call.                                 *)
NormalizeTerm ==
    /\ romPc = "normalize"
    /\ romTerm' = NormalizeSearchTerm(romTerm)
    /\ attempt' = 1
    /\ romPc' = "games"
    /\ UNCHANGED <<romPlatform, roms, queries, rom, attempts, igdb_id, igdb_rom,
                   tokenVars, mergeVars, sideVars>>

(***************************************************************************)
(* The requests of get_rom as scan_rom sees them: each one is a _request   *)
(* call, which returns a list or raises.                                   *)
(***************************************************************************)

(* What the provider and the token endpoint answer to one _request call:   *)
(* the answer to the first send, the answer to the credential exchange (if *)
(* the first answer is a 401) and the answer to the second send (if there  *)
(* is one).                                                                *)
Replies == Responses \X ExchangeKinds \X Responses

(* _request as a whole, from the answers to its outcome: "list", "empty",  *)
(* "http503" and "raise" as in FirstSendOutcome, "exit" (sys.exit(2) of    *)
(* the forced refresh), "exchange_raise" (ConnectionError out of it).      *)
RequestOutcome(i, reply) ==
    LET first == FirstSendOutcome(i, reply[1]) IN
    CASE first = "retry" -> RetryOutcome(i, reply[3])
      [] first = "refresh" ->
            LET upd == UpdateOutcome(i, reply[2]) IN
            CASE upd = "exit" -> "exit"
              [] upd = "raise" -> "exchange_raise"
              [] OTHER -> RetryOutcome(i, reply[3])
      [] OTHER -> first

(* The exception a _request outcome stands for.                            *)
ExceptionOf(out) ==
    CASE out = "http503" -> "HTTPException"
      [] out = "exit" -> "SystemExit"
      [] OTHER -> "ConnectionError"

(* The bodies of the provider's 200 answers to the requests of get_rom     *)
(* under scan_rom: no record, or the first game.                           *)
ScanAnswers == {<<>>, ProviderGame(1)}

(* The value _request hands to its caller when it returns: the body of    *)
(* the answer, or [].                                                      *)
Returned(out, answer) == IF out = "list" THEN answer ELSE <<>>

(* The _request call of implementation i returns a list to its caller.     *)
Returns(i, reply) == RequestOutcome(i, reply) \in {"list", "empty"}

(* The lists the _request calls of get_rom return, over all answers.       *)
ReturnedLists ==
    [i \in Impls |->
        { Returned(RequestOutcome(i, reply), answer) :
            reply \in {r \in Replies : Returns(i, r)}, answer \in ScanAnswers }]

(* Whether a returning _request call handed back [] for a failed request,  *)
(* over all answers.                                                       *)
ReturnedSoft ==
    [i \in Impls |->
        { RequestOutcome(i, reply) = "empty" : reply \in {r \in Replies : Returns(i, r)} }]

(* The exception that leaves a _request call, with the answers behind it.  *)
Raised(i, reply) ==
    LET out == RequestOutcome(i, reply)
        first == FirstSendOutcome(i, reply[1]) IN
    [raised |-> ExceptionOf(out),
     first |-> reply[1],
     exchange |-> IF first = "refresh" THEN reply[2] ELSE "none",
     retry |-> IF out \in {"exit", "exchange_raise"} \/ first \notin {"refresh", "retry"}
               THEN "none" ELSE reply[3]]

(* The exceptions that can leave a _request call, over all answers.        *)
RaisedExceptions ==
    [i \in Impls |-> { Raised(i, reply) : reply \in {r \in Replies : ~Returns(i, r)} }]

(* The positions of get_rom at which a request is sent.                    *)
RequestPcs == {"games", "alt", "byid", "cover", "screenshots"}

(* The request sent at the current position.                               *)
QueryAt ==
    CASE romPc = "games" -> GamesQuery(attempt)
      [] romPc = "alt" -> AltQuery(attempt)
      [] romPc = "byid" -> ByIdQuery(attempt, roms[1].id)
      [] romPc = "cover" -> CoverQuery(igdb_rom.igdb_id)
      [] OTHER -> ScreenshotsQuery(igdb_rom.igdb_id)

(* A _request call of get_rom raises: neither _search_rom nor get_rom nor  *)
(* scan_rom has a try block, so the exception leaves scan_rom.             *)
RequestRaises(e) ==
    /\ romPc \in RequestPcs
    /\ queries' = Append(queries, QueryAt)
    /\ exception' = e
    /\ romPc' = "raised"
    /\ UNCHANGED <<romTerm, romPlatform, attempt, roms, rom, attempts, igdb_id, igdb_rom,
                   tokenVars, mergeVars, nameVars, posts, retrying, indexVars, rom_attrs, platformVars>>

(* scan_rom after `handler_rom = await igdb_handler.get_rom(...)`:         *)
(* rom_attrs.update(handler_rom) and the return of the Rom, at once when    *)
(* handler_rom["igdb_id"] is falsy.  The paths that the resource handlers  *)
(* add for an identified rom are not part of the model.                    *)
ScanRomReturn ==
    /\ romPc = "done"
    /\ rom_attrs' = Overlay([file_name |-> file_name,
                             file_name_no_tags |-> NoTags(file_name)], igdb_rom)
    /\ romPc' = "scanned"
    /\ UNCHANGED <<romTerm, romPlatform, attempt, roms, queries, rom, attempts, igdb_id,
                   igdb_rom, tokenVars, mergeVars, nameVars, posts, retrying, indexVars, exception, platformVars>>

(* scan_rom calls get_rom with a file name and a platform id, the index    *)
(* files being on disk or not.  The index lookups of "metadata_handler"    *)
(* are inherited from a module outside the sources at hand: its runs are   *)
(* those on a platform that calls none of them.                            *)
InitScan ==
    /\ impl \in Impls
    /\ TokenOff
    /\ MergeOff
    /\ romPc = "start"
    /\ romTerm = ""
    /\ romPlatform \in ScanPlatforms
    /\ impl = "metadata_handler" =>
          romPlatform \notin {PS2_IGDB_ID, SWITCH_IGDB_ID} \cup ARCADE_IGDB_IDS
    /\ attempt = 0
    /\ roms = <<>>
    /\ queries = <<>>
    /\ rom = EmptyDict
    /\ attempts = <<>>
    /\ igdb_id = None
    /\ igdb_rom = EmptyDict
    /\ file_name \in FileNames
    /\ files \in SUBSET IndexFiles
    /\ loads = <<>>
    /\ refreshTasks = <<>>
    /\ product_id = EmptyDict
    /\ exception = NoException
    /\ rom_attrs = EmptyDict
    /\ search_extended = FALSE
    /\ alternative_matched_roms = <<>>
    /\ posts = 0
    /\ retrying = FALSE
    /\ PlatformOff

NextScan ==
    \/ GetRomStart
    \/ Ps2OplFormat
    \/ \E made \in SUBSET TaskFiles("update_switch_titledb_task") : SwitchTitledbFormat(made)
    \/ \E made \in SUBSET TaskFiles("update_switch_titledb_task") : SwitchProductIdFormat(made)
    \/ \E made \in SUBSET TaskFiles("update_mame_xml_task") : MameFormat(made)
    \/ NormalizeTerm
    \/ \E answer \in ReturnedLists[impl] : SearchGames(answer)
    \/ \E answer \in ReturnedLists[impl] : SearchAlt(answer)
    \/ \E answer \in ReturnedLists[impl] : FetchById(answer)
    \/ \E soft \in ReturnedSoft[impl] : SearchCover(soft)
    \/ \E soft \in ReturnedSoft[impl] : SearchScreenshots(soft)
    \/ \E e \in RaisedExceptions[impl] : RequestRaises(e)
    \/ ScanRomReturn

SpecScan == InitScan /\ [][NextScan]_vars

(***************************************************************************)
(* The index lookups of get_rom.                                           *)
(***************************************************************************)

(* The positions of get_rom at which an index lookup may run.              *)
LookupPcs == {"ps2", "titledb", "productid", "mame"}

(* The step is an index lookup: it has opened an index file.               *)
LookupStep == romPc \in LookupPcs /\ loads' # loads

(* The open() calls and the refresh tasks of the step.                     *)
StepLoads == SubSeq(loads', Len(loads) + 1, Len(loads'))
StepTasks == SubSeq(refreshTasks', Len(refreshTasks) + 1, Len(refreshTasks'))

(* C22: in each of the four index lookups, a first load that finds the     *)
(* file runs no refresh and no further load; a first load that finds the   *)
(* file missing is followed by exactly one refresh and exactly one more    *)
(* load, never by a second refresh or a third load.                        *)
C22_OneRefreshOneRetry ==
    [][LookupStep =>
          IF StepLoads[1].found
          THEN Len(StepLoads) = 1 /\ StepTasks = <<>>
          ELSE Len(StepLoads) = 2 /\ Len(StepTasks) = 1]_vars

(* C23: in each of the four index lookups, when the index file is missing  *)
(* and still missing after the refresh, the step returns the search term   *)
(* it was given, raises nothing, and get_rom goes on towards its provider  *)
(* query.                                                                  *)
C23_MissingIndexPassesThrough ==
    [][(LookupStep /\ ~StepLoads[Len(StepLoads)].found) =>
          /\ romTerm' = romTerm
          /\ exception' = NoException
          /\ romPc' \in (LookupPcs \cup {"normalize"}) \ {romPc}]_vars

(***************************************************************************)
(* The search term of a disc-serial file name.                             *)
(***************************************************************************)

(* get_rom runs on the optical-disc platform with a file name whose serial *)
(* is a key of the disc-serial index, and has read the index.              *)
IndexedSerial ==
    /\ romPlatform = PS2_IGDB_ID
    /\ OplSerial(file_name) \in DOMAIN OplIndex
    /\ loads # <<>>
    /\ loads[1].found

(* The Name field of the index entry of the file name's serial.            *)
IndexedName == OplIndex[OplSerial(file_name)].Name

(* The search terms the requests of the `or` chain carry.                  *)
QueriedTerms ==
    { queries[i].search : i \in {j \in 1..Len(queries) : queries[j].endpoint = "games"
                                                          /\ queries[j].search # ""} }
    \cup { queries[i].where[4] : i \in {j \in 1..Len(queries) : queries[j].endpoint = "search"} }

(* C24 as stated: for a disc-serial file name present in the index, the    *)
(* search term get_rom ends with, and queries the provider with, is the    *)
(* Name field of the index entry verbatim.                                 *)
C24_IndexedTitleVerbatim ==
    (IndexedSerial /\ attempt >= 1) =>
        /\ romTerm = IndexedName
        /\ QueriedTerms \subseteq {IndexedName}

(* C24, amended: for a disc-serial file name present in the index, the     *)
(* search term get_rom ends with is the Name field with the trademark,     *)
(* registered, copyright and service mark symbols removed and the          *)
(* surrounding whitespace stripped, and the provider is queried with the   *)
(* ASCII transliteration of that term; no title-id, product-id or          *)
(* arcade-set step alters it.                                              *)
C24_IndexedTitleNormalized ==
    (IndexedSerial /\ attempt >= 1) =>
        /\ romTerm = NormalizeSearchTerm(IndexedName)
        /\ QueriedTerms \subseteq {Unidecode(NormalizeSearchTerm(IndexedName))}
        /\ (IndexedName = "Zelda II" => romTerm = IndexedName)

(* The serial of "SLUS_200.62.iso" was found in the index and the provider *)
(* has been asked for its title without the trademark symbol.              *)
C24_Witness ==
    /\ IndexedSerial
    /\ file_name = "SLUS_200.62.iso"
    /\ QueriedTerms = {"Okami"}
    /\ romPc = "scanned"

(***************************************************************************)
(* The key of the product-id lookup.                                       *)
(***************************************************************************)

(* n with the bit of mask 0x800 cleared, n a value of three hex digits.    *)
ClearUpdateBit(n) == IF (n \div 2048) % 2 = 1 THEN n - 2048 ELSE n

(* C28: the key looked up in the product-id index is the id matched in the *)
(* file name with only the bit of mask 0x800 cleared: the first thirteen   *)
(* hex digits as matched, and of the last three every bit but that one.    *)
C28_OnlyUpdateBitCleared ==
    ~IsEmptyDict(product_id) =>
        /\ product_id.head = ProductId(file_name).head
        /\ product_id.tail = ClearUpdateBit(ProductId(file_name).tail)

(***************************************************************************)
(* The index steps and the platform id.                                    *)
(***************************************************************************)

(* The platform ids for which get_rom has an index step.                   *)
IndexPlatforms == {PS2_IGDB_ID, SWITCH_IGDB_ID} \cup ARCADE_IGDB_IDS

(* The index file was opened and was there.                                *)
Loaded(file) == \E i \in 1..Len(loads) : loads[i].file = file /\ loads[i].found

(* On the handheld/console platform the file name has a title id and a     *)
(* product id, and both lookups found an entry.                            *)
BothIdsHit ==
    /\ romPlatform = SWITCH_IGDB_ID
    /\ TitleId(file_name) \in DOMAIN TitledbIndex
    /\ ~IsEmptyDict(ProductId(file_name))
    /\ MaskProductId(ProductId(file_name)) \in DOMAIN ProductIdIndex
    /\ Loaded(SWITCH_TITLEDB_INDEX_FILE)
    /\ Loaded(SWITCH_PRODUCT_ID_FILE)

(* C30: on a platform that is neither the optical-disc one (8), nor the    *)
(* handheld/console one (130), nor an arcade one (52, 79, 80), get_rom     *)
(* opens no index file and runs no refresh task, whatever the file name;   *)
(* on the handheld/console platform the title-id index is opened before    *)
(* the product-id index, and when both lookups hit the search term is the  *)
(* title of the product-id index.                                          *)
C30_IndexStepsOnlyForTheirPlatform ==
    /\ [](romPlatform \notin IndexPlatforms => loads = <<>> /\ refreshTasks = <<>>)
    /\ [][romPlatform \notin IndexPlatforms => UNCHANGED <<files, product_id>>]_vars
    /\ [](\A i, j \in 1..Len(loads) :
            (loads[i].file = SWITCH_TITLEDB_INDEX_FILE
             /\ loads[j].file = SWITCH_PRODUCT_ID_FILE) => i < j)
    /\ [](BothIdsHit =>
            romTerm = ProductIdIndex[MaskProductId(ProductId(file_name))].name)

(* A file name with both ids was scanned on platform 130 with both indices *)
(* on disk: the title of the product-id index is the search term.          *)
C30_Witness ==
    /\ BothIdsHit
    /\ file_name = "Zelda [70010000000025][0100F2C0115B6000].nsp"
    /\ romTerm = "Pok'emon"
    /\ romPc = "scanned"

(* A disc-serial file name was scanned on a platform without index step.   *)
C30_WitnessOtherPlatform ==
    /\ romPlatform = 4
    /\ file_name = "SCUS_123.45.iso"
    /\ romTerm = "SCUS_123.45"
    /\ romPc = "scanned"

(***************************************************************************)
(* scan_rom and the failures of the provider requests.                     *)
(***************************************************************************)

(* The exceptions a provider request can end get_rom with.                 *)
ProviderExceptions == {"HTTPException", "ConnectionError", "SystemExit"}

(* The answers behind the exception: a send met a connection failure, or   *)
(* the credential exchange of the forced refresh failed.                   *)
ConnectivityOrExchangeFailure(e) ==
    \/ e.first \in {"connection_error", "connect_timeout"}
    \/ e.retry = "connection_error"
    \/ e.exchange \in ExchangeKinds \ {"ok"}

(* scan_rom has returned and no _search_rom call of get_rom found a game.  *)
ScannedUnidentified == romPc = "scanned" /\ IsEmptyDict(rom)

(* C25 as stated: whatever the provider answers to the requests made       *)
(* during scan_rom (HTTP error, timeout, 401, connection failure, no       *)
(* match), scan_rom does not end in an error, and a lookup that found      *)
(* nothing yields a Rom without provider id.                               *)
C25_FailedLookupNeverAborts ==
    /\ exception.raised \notin ProviderExceptions
    /\ ScannedUnidentified => rom_attrs.igdb_id = None

(* C25, amended: a provider request ends scan_rom in an error only when a  *)
(* send met a connection failure or the forced credential exchange failed; *)
(* for every other answer (HTTP error status, timeout, 401, also on the    *)
(* re-send, or no match) get_rom goes on, and when no attempt found a game *)
(* scan_rom returns a Rom with no provider id, the search term as name,    *)
(* empty slug and summary, no screenshots and an empty or default cover.   *)
C25_SoftFailureNeverAborts ==
    /\ exception.raised \in ProviderExceptions =>
          ConnectivityOrExchangeFailure(exception)
    /\ romPc = "raised" => exception.raised # "none"
    /\ ScannedUnidentified =>
          /\ rom_attrs.igdb_id = None
          /\ rom_attrs.name = romTerm
          /\ rom_attrs.slug = ""
          /\ rom_attrs.summary = ""
          /\ rom_attrs.url_screenshots = <<>>
          /\ rom_attrs.url_cover = IF impl = "handler" THEN "" ELSE DEFAULT_URL_COVER_L
          /\ rom_attrs.file_name = file_name

(* scan_rom has returned a Rom without provider id after the three         *)
(* attempts of get_rom each got [] from their requests.                    *)
C25_Witness ==
    /\ ScannedUnidentified
    /\ Len(attempts) = 3
    /\ rom_attrs.igdb_id = None
    /\ exception = NoException

(***************************************************************************)
(* get_platform                                                            *)
(***************************************************************************)

(* The slugs handed to get_platform.                                       *)
Slugs == {"ps2", "PS2", "game-boy-advance", "switch"}

(* slug.replace("-", " ").title() on the slugs of the model.               *)
TitleCased(s) ==
    CASE s = "ps2" -> "Ps2"
      [] s = "PS2" -> "Ps2"
      [] s = "game-boy-advance" -> "Game Boy Advance"
      [] s = "switch" -> "Switch"
      [] OTHER -> s

(* Records of the platforms endpoint and of the platform_versions          *)
(* endpoint, with the two fields the queries ask for.                      *)
PlatformRecords == {[id |-> 8, name |-> "PlayStation 2"], [id |-> 130, name |-> "Nintendo Switch"]}
VersionRecords == {[id |-> 501, name |-> "Slimline"], [id |-> 502, name |-> "Switch Lite"]}

(* The request of get_platform to one of the two endpoints.                *)
PlatformQuery(endpoint) ==
    [endpoint |-> endpoint, search |-> "",
     where |-> <<"slug", Lower(slug)>>,
     category_filter |-> <<>>, attempt |-> 0]

(* IGDBPlatform(igdb_id=..., name=...) of a matched record;                *)
(* "metadata_handler" adds the slug.                                       *)
IGDBPlatformOf(r) ==
    IF impl = "handler"
    THEN [igdb_id |-> Get(r, "id", None), name |-> Get(r, "name", slug)]
    ELSE [igdb_id |-> r.id, slug |-> slug, name |-> r.name]

(* IGDBPlatform(igdb_id=None, name=slug.replace("-", " ").title()) *)
IGDBPlatformUnmatched ==
    IF impl = "handler"
    THEN [igdb_id |-> None, name |-> TitleCased(slug)]
    ELSE [igdb_id |-> None, slug |-> slug, name |-> TitleCased(slug)]

(* What the steps of get_platform leave alone.                             *)
platformFrame ==
    <<romPc, romTerm, romPlatform, attempt, roms, rom, attempts, igdb_id, igdb_rom,
      tokenVars, mergeVars, nameVars, posts, retrying, indexVars, exception,
      rom_attrs, slug>>

(* GetPlatform with the versions endpoint queried whatever the platforms   *)
(* query returned.                                                         *)
GetPlatform_AlwaysVersions(answer) ==
    /\ platformPc = "platforms"
    /\ queries' = Append(queries, PlatformQuery("platforms"))
    /\ platforms' = answer
    /\ platform' = IF answer # <<>> THEN IGDBPlatformOf(answer[1]) ELSE platform
    /\ platformPc' = "platform_versions"
    /\ UNCHANGED <<platform_versions, platformFrame>>

(* platforms = self._request(platforms endpoint, where slug=...);          *)
(* platform = pydash.get(platforms, "[0]", None); the return on a match.   *)
GetPlatform(answer) ==
    /\ platformPc = "platforms"
    /\ queries' = Append(queries, PlatformQuery("platforms"))
    /\ platforms' = answer
    /\ IF answer # <<>>
       THEN /\ platform' = IGDBPlatformOf(answer[1])
            /\ platformPc' = "done"
       ELSE /\ platform' = platform
            /\ platformPc' = "platform_versions"
    /\ UNCHANGED <<platform_versions, platformFrame>>

(* platform_versions = self._request(platform_versions endpoint, ...);     *)
(* version = pydash.get(platform_versions, "[0]", None); the two returns.  *)
GetPlatformVersion(answer) ==
    /\ platformPc = "platform_versions"
    /\ queries' = Append(queries, PlatformQuery("platform_versions"))
    /\ platform_versions' = answer
    /\ platform' = IF answer # <<>> THEN IGDBPlatformOf(answer[1])
                   ELSE IGDBPlatformUnmatched
    /\ platformPc' = "done"
    /\ UNCHANGED <<platforms, platformFrame>>

(* get_platform is called with a slug.                                     *)
InitPlatform ==
    /\ impl \in Impls
    /\ TokenOff
    /\ RomOff
    /\ MergeOff
    /\ file_name = ""
    /\ files = {}
    /\ loads = <<>>
    /\ refreshTasks = <<>>
    /\ product_id = EmptyDict
    /\ exception = NoException
    /\ rom_attrs = EmptyDict
    /\ search_extended = FALSE
    /\ alternative_matched_roms = <<>>
    /\ posts = 0
    /\ retrying = FALSE
    /\ slug \in Slugs
    /\ platforms = <<>>
    /\ platform_versions = <<>>
    /\ platform = EmptyDict
    /\ platformPc = "platforms"

NextPlatform ==
    \/ \E answer \in ListsOf(PlatformRecords) : GetPlatform(answer)
    \/ \E answer \in ListsOf(VersionRecords) : GetPlatformVersion(answer)

SpecPlatform == InitPlatform /\ [][NextPlatform]_vars

(* The endpoints get_platform has queried, in order.                       *)
QueriedEndpoints == [i \in 1..Len(queries) |-> queries[i].endpoint]

(* C26: get_platform queries the platform_versions endpoint only after a   *)
(* platforms query that returned no record, a platform match is returned   *)
(* before any version is looked at, and the result has the id None with    *)
(* the name `slug with hyphens replaced by spaces, title-cased` exactly    *)
(* when both queries returned no record; otherwise it has the id and name  *)
(* of the first matched record.                                            *)
C26_PlatformBeforeVersion ==
    /\ QueriedEndpoints \in {<<>>, <<"platforms">>, <<"platforms", "platform_versions">>}
    /\ Len(queries) = 2 => platforms = <<>>
    /\ platformPc = "done" =>
          /\ platforms # <<>> =>
                /\ platform.igdb_id = platforms[1].id
                /\ platform.name = platforms[1].name
                /\ Len(queries) = 1
          /\ (platforms = <<>> /\ platform_versions # <<>>) =>
                /\ platform.igdb_id = platform_versions[1].id
                /\ platform.name = platform_versions[1].name
          /\ (platforms = <<>> /\ platform_versions = <<>>) =>
                /\ platform.igdb_id = None
                /\ platform.name = TitleCased(slug)
                /\ Len(queries) = 2
          /\ platform.igdb_id = None <=> (platforms = <<>> /\ platform_versions = <<>>)

(* Both queries for "game-boy-advance" returned no record: the result has  *)
(* no id and the title-cased name.                                         *)
C26_Witness ==
    /\ platformPc = "done"
    /\ slug = "game-boy-advance"
    /\ QueriedEndpoints = <<"platforms", "platform_versions">>
    /\ platform.igdb_id = None
    /\ platform.name = "Game Boy Advance"

(***************************************************************************)
(* The image URLs of the record get_rom returns.                           *)
(***************************************************************************)

(* The URLs of the model that carry the thumbnail token, with and without  *)
(* scheme.                                                                 *)
ThumbUrls ==
    {"//igdb/t_thumb/co1.jpg", "//igdb/t_thumb/co3.jpg", "//igdb/t_thumb/sc1.jpg",
     "https://igdb/t_thumb/co1.jpg", "https://igdb/t_thumb/co3.jpg",
     "https://igdb/t_thumb/sc1.jpg"}

(* The URLs of the model that begin with exactly one "https:".             *)
QualifiedUrls ==
    {"https://igdb/t_thumb/co1.jpg", "https://igdb/t_thumb/co3.jpg",
     "https://igdb/t_thumb/sc1.jpg",
     "https://igdb/t_original/co1.jpg", "https://igdb/t_original/co3.jpg",
     "https://igdb/t_original/sc1.jpg",
     "https://igdb/t_cover_big/co1.jpg", "https://igdb/t_cover_big/co3.jpg",
     "https://igdb/t_cover_big/sc1.jpg"}

(* The image URLs of a record: its cover and its screenshots.              *)
ImageUrls(r) ==
    {r.url_cover} \cup {r.url_screenshots[i] : i \in 1..Len(r.url_screenshots)}

(* C29: in the record get_rom returns, every cover URL and screenshot URL  *)
(* that is neither empty nor the default cover begins with exactly one     *)
(* "https:" and no longer carries the thumbnail token t_thumb.             *)
C29_ImageUrlsNormalized ==
    (romPc = "done" /\ igdb_id = None) =>
        \A u \in ImageUrls(igdb_rom) \ {"", DEFAULT_URL_COVER_L} :
            u \in QualifiedUrls /\ u \notin ThumbUrls

(***************************************************************************)
(* A failed credential exchange and the cache.                             *)
(***************************************************************************)

(* The answers of the token endpoint that leave _update_twitch_token       *)
(* without a usable token.                                                 *)
FailedExchanges == ExchangeKinds \ {"ok"}

(* Client c leaves requests.post of _update_twitch_token in this step with *)
(* a failed exchange.                                                      *)
ExchangeFails(c) ==
    /\ pc[c] = "upd_post"
    /\ pc'[c] # "upd_post"
    /\ exchange'[c] \in FailedExchanges

(* The two cache keys, the lifetime of the token key and the record of     *)
(* cache writes stay as they are in this step.                             *)
CacheUntouched ==
    /\ cacheToken' = cacheToken
    /\ cacheTokenDeadline' = cacheTokenDeadline
    /\ cacheExpiresAt' = cacheExpiresAt
    /\ written' = written

(* C31: a failed credential exchange leaves the token cache unchanged: the *)
(* step in which _update_twitch_token learns of the failure writes neither *)
(* cache key, the function then never reaches its two cache.set calls, and *)
(* every write of a cache key is made by a client whose exchange gave a    *)
(* token.                                                                  *)
C31_FailedExchangeLeavesCache ==
    /\ [][\A c \in Clients : ExchangeFails(c) => CacheUntouched]_vars
    /\ [](\A c \in Clients :
            pc[c] \in {"upd_set_token", "upd_set_expiry"} => exchange[c] = "ok")
    /\ [][(cacheExpiresAt' # cacheExpiresAt
             \/ (cacheToken' # cacheToken /\ cacheToken' # EmptyToken))
          => \E c \in Clients :
                /\ pc[c] \in {"upd_set_token", "upd_set_expiry"}
                /\ exchange[c] = "ok"]_vars

(* A forced refresh has failed while the cache holds a token that is still *)
(* valid: the token of the earlier exchange is still there.                *)
C31_Witness ==
    /\ exchange[1] \in FailedExchanges
    /\ refreshes[1] = 1
    /\ pc[1] \in {"send2", "done"}
    /\ cacheToken # EmptyToken
    /\ cacheExpiresAt # None
    /\ now <= cacheExpiresAt
    /\ <<cacheToken, cacheExpiresAt>> \in written

(***************************************************************************)
(* get_matched_roms_by_name                                                *)
(*                                                                         *)
(* romPc is the position in the function, romTerm and romPlatform its      *)
(* arguments, roms its local matched_roms, igdb_matched_roms the list it   *)
(* returns (the name search_rom gives it).  A request that raises ends the *)
(* call without a list and is left to the scan's model.                    *)
(***************************************************************************)

(* What the games endpoint answers to one query: every game at most once   *)
(* ([] also when the request failed softly).                               *)
NameLists ==
    { l \in GameLists : \A i, j \in 1..Len(l) : i # j => l[i].id # l[j].id }

(* What the search endpoint answers: records that carry the game's id      *)
(* under "game" or, without that key, their own id.                        *)
AltLists ==
    LET AltRecords == {[game |-> [id |-> 1]], [id |-> 2], [game |-> [id |-> 3]]} IN
    { l \in ListsOf(AltRecords) : \A i, j \in 1..Len(l) : i # j => l[i] # l[j] }

(* The unique_ids filter left out: the list as it is.                      *)
UniqueById_Unfiltered(seen, rs) == rs

RECURSIVE UniqueById(_, _)
(* [unique_ids.setdefault(rom["id"], rom) for rom in matched_roms          *)
(*  if rom["id"] not in unique_ids], seen being the keys of unique_ids.    *)
UniqueById(seen, rs) ==
    IF rs = <<>> THEN <<>>
    ELSE IF Head(rs).id \in seen
         THEN UniqueById(seen, Tail(rs))
         ELSE <<Head(rs)>> \o UniqueById(seen \cup {Head(rs).id}, Tail(rs))

(* The end of the function once the requests of "handler" are made: the   *)
(* unique_ids filter and the IGDBRom(...) of each record left, the cover's *)
(* size token being replaced before the url is normalised.  For            *)
(* "metadata_handler" the start of its list comprehension, which makes two *)
(* requests for each record and returns at once when there is none.        *)
ReturnMatched(rs) ==
    IF impl = "handler"
    THEN LET unique == UniqueById({}, rs)
             cover(r) == Get(Get(r, "cover", EmptyDict), "url", "")
             IGDBRom(r) ==
                 [IGDBRomOf(r, Get(r, "id", None), QueryTerm) EXCEPT
                     !.url_cover = NormalizeCoverUrl(ThumbToCoverBig(cover(r)))] IN
         /\ igdb_matched_roms' = [i \in 1..Len(unique) |-> IGDBRom(unique[i])]
         /\ romPc' = "done"
    ELSE /\ igdb_matched_roms' = <<>>
         /\ romPc' = IF rs = <<>> THEN "done" ELSE "images"

(* if not platform_idgb_id: return []                                      *)
GetMatchedRomsByName ==
    /\ romPc = "entry"
    /\ IF Truthy(romPlatform)
       THEN romPc' = "games" /\ UNCHANGED igdb_matched_roms
       ELSE romPc' = "done" /\ igdb_matched_roms' = <<>>
    /\ UNCHANGED <<romTerm, romPlatform, attempt, roms, queries, rom, attempts,
                   igdb_id, igdb_rom, moby_matched_roms, merged_dict, matched_roms,
                   mergePc, tokenVars, sideVars>>

(* matched_roms = self._request(games endpoint, search "<term>"; where     *)
(* platforms=[<platform>];)                                                *)
MatchedGames(answer) ==
    /\ romPc = "games"
    /\ queries' = Append(queries,
                         [endpoint |-> "games", search |-> QueryTerm,
                          where |-> <<"platforms", romPlatform>>,
                          category_filter |-> <<>>, attempt |-> 0])
    /\ roms' = answer
    /\ IF impl = "handler" /\ (answer = <<>> \/ search_extended)
       THEN romPc' = "alt" /\ UNCHANGED igdb_matched_roms
       ELSE ReturnMatched(answer)
    /\ UNCHANGED <<romTerm, romPlatform, attempt, rom, attempts, igdb_id, igdb_rom,
                   moby_matched_roms, merged_dict, matched_roms, mergePc, tokenVars,
                   sideVars>>

(* alternative_matched_roms = self._request(search endpoint, ...)          *)
MatchedAlt(answer) ==
    /\ romPc = "alt"
    /\ queries' = Append(queries,
                         [endpoint |-> "search", search |-> "",
                          where |-> <<"game.platforms", romPlatform, "name", QueryTerm>>,
                          category_filter |-> <<>>, attempt |-> 0])
    /\ alternative_matched_roms' = answer
    /\ IF answer # <<>>
       THEN romPc' = "ids" /\ UNCHANGED igdb_matched_roms
       ELSE ReturnMatched(roms)
    /\ UNCHANGED <<romTerm, romPlatform, attempt, roms, rom, attempts, igdb_id,
                   igdb_rom, moby_matched_roms, merged_dict, matched_roms, mergePc,
                   tokenVars, indexVars, exception, rom_attrs, platformVars,
                   search_extended, posts, retrying>>

(* alternative_matched_roms = self._request(games endpoint, where id=.. |  *)
(* id=..;) and matched_roms.extend(alternative_matched_roms).  The id of   *)
(* a hit is rom.get("game").get("id", "") if "game" in rom.keys() else     *)
(* rom.get("id", "").                                                      *)
MatchedByIds(answer) ==
    LET alts == alternative_matched_roms
        ids == [i \in 1..Len(alts) |->
                   IF "game" \in DOMAIN alts[i] THEN Get(alts[i].game, "id", "")
                   ELSE Get(alts[i], "id", "")] IN
    /\ romPc = "ids"
    /\ queries' = Append(queries,
                         [endpoint |-> "games", search |-> "", where |-> <<"id", ids>>,
                          category_filter |-> <<>>, attempt |-> 0])
    /\ alternative_matched_roms' = answer
    /\ roms' = roms \o answer
    /\ ReturnMatched(roms')
    /\ UNCHANGED <<romTerm, romPlatform, attempt, rom, attempts, igdb_id, igdb_rom,
                   moby_matched_roms, merged_dict, matched_roms, mergePc, tokenVars,
                   indexVars, exception, rom_attrs, platformVars, search_extended, posts, retrying>>

(* "metadata_handler": the IGDBRom(...) of the next record of matched_roms, *)
(* with its _search_cover and its _search_screenshots request.             *)
MatchedImages(softCover, softShots) ==
    LET r == roms[Len(igdb_matched_roms) + 1]
        covers == IF softCover THEN <<>> ELSE ProviderCovers(r.id)
        shots == IF softShots THEN <<>> ELSE ProviderScreenshots(r.id) IN
    /\ romPc = "images"
    /\ queries' = queries \o <<CoverQuery(r.id), ScreenshotsQuery(r.id)>>
    /\ igdb_matched_roms' =
          Append(igdb_matched_roms,
                 [igdb_id |-> r.id, slug |-> r.slug, name |-> r.name,
                  summary |-> Get(r, "summary", ""),
                  url_cover |-> ThumbToCoverBig(CoverOf(covers)),
                  url_screenshots |-> ScreenshotsOf(shots)])
    /\ romPc' = IF Len(igdb_matched_roms') = Len(roms) THEN "done" ELSE "images"
    /\ UNCHANGED <<romTerm, romPlatform, attempt, roms, rom, attempts, igdb_id,
                   igdb_rom, moby_matched_roms, merged_dict, matched_roms, mergePc,
                   tokenVars, sideVars>>

(* A name search starts; the platform may have no provider id.  Only       *)
(* "handler" has the search_extended parameter.                            *)
InitByName ==
    /\ impl \in Impls
    /\ TokenOff
    /\ MergeOff
    /\ file_name = ""
    /\ files = {}
    /\ loads = <<>>
    /\ refreshTasks = <<>>
    /\ product_id = EmptyDict
    /\ exception = NoException
    /\ rom_attrs = EmptyDict
    /\ PlatformOff
    /\ search_extended \in (IF impl = "handler" THEN BOOLEAN ELSE {FALSE})
    /\ alternative_matched_roms = <<>>
    /\ posts = 0
    /\ retrying = FALSE
    /\ romPc = "entry"
    /\ romTerm \in {"zelda", "Pok'emon"}
    /\ romPlatform \in {None, 0} \cup Platforms
    /\ attempt = 0
    /\ roms = <<>>
    /\ queries = <<>>
    /\ rom = EmptyDict
    /\ attempts = <<>>
    /\ igdb_id = None
    /\ igdb_rom = EmptyDict

NextByName ==
    \/ GetMatchedRomsByName
    \/ \E answer \in NameLists : MatchedGames(answer)
    \/ \E answer \in AltLists : MatchedAlt(answer)
    \/ \E answer \in NameLists : MatchedByIds(answer)
    \/ \E softCover, softShots \in BOOLEAN : MatchedImages(softCover, softShots)

SpecByName == InitByName /\ [][NextByName]_vars

(* The provider ids of a list of records, in order.                        *)
IdsOf(rs) == [i \in 1..Len(rs) |-> rs[i].id]

(* The place at which id occurs first in the list of ids.                  *)
FirstPlace(ids, id) == CHOOSE i \in 1..Len(ids) : ids[i] = id /\ \A j \in 1..(i - 1) : ids[j] # id

(* out holds every id of ids exactly once, in the order in which the ids   *)
(* occur first in ids.                                                     *)
EachIdOnceInFirstOrder(out, ids) ==
    /\ {out[i] : i \in 1..Len(out)} = {ids[i] : i \in 1..Len(ids)}
    /\ \A i, j \in 1..Len(out) :
          i < j => /\ out[i] # out[j]
                   /\ FirstPlace(ids, out[i]) < FirstPlace(ids, out[j])

(* The query added in this step goes to the search endpoint.               *)
AltQueried ==
    /\ Len(queries') = Len(queries) + 1
    /\ queries'[Len(queries')].endpoint = "search"

RequestReturns(rs) ==
    CASE romPc = "games" /\ rs = <<>> ->
            /\ romPc' = "alt"
            /\ roms' = rs
            /\ UNCHANGED <<attempt, rom, attempts, igdb_rom>>
      [] romPc = "alt" /\ rs # <<>> ->
            /\ romPc' = "byid"
            /\ roms' = rs
            /\ UNCHANGED <<attempt, rom, attempts, igdb_rom>>
      [] OTHER -> EndAttempt(rs)

(* The first try block of _request: requests.post, then the return of the  *)
(* answer or of [], an exception that leaves get_rom, or the way on to the *)
(* second try block, after the forced refresh when the answer is a 401.    *)
FirstPost(r, kind, answer) ==
    LET first == FirstSendOutcome(impl, r)
        upd == UpdateOutcome(impl, kind)
        goesOn == first = "retry" \/ (first = "refresh" /\ upd \notin {"exit", "raise"}) IN
    /\ romPc \in {"games", "alt", "byid"}
    /\ ~retrying
    /\ queries' = Append(queries, QueryAt)
    /\ posts' = posts + 1
    /\ retrying' = goesOn
    /\ CASE first \in {"list", "empty"} ->
               /\ RequestReturns(Returned(first, answer))
               /\ exception' = exception
         [] goesOn ->
               UNCHANGED <<romPc, attempt, roms, rom, attempts, igdb_rom, exception>>
         [] OTHER ->
               /\ romPc' = "raised"
               /\ exception' = Raised(impl, <<r, kind, r>>)
               /\ UNCHANGED <<attempt, roms, rom, attempts, igdb_rom>>
    /\ UNCHANGED <<romTerm, romPlatform, igdb_id, tokenVars, mergeVars, indexVars,
                   rom_attrs, platformVars, nameVars>>

(* SecondPost with the second try block inside a loop: a request that      *)
(* times out again is sent again.                                          *)
SecondPost_RetriesAgain(r, answer) ==
    /\ retrying
    /\ posts' = posts + 1
    /\ IF r \in {"timeout", "connect_timeout"}
       THEN UNCHANGED <<retrying, romPc, attempt, roms, rom, attempts, igdb_rom>>
       ELSE /\ retrying' = FALSE
            /\ RequestReturns(Returned(RetryOutcome(impl, r), answer))
    /\ UNCHANGED <<romTerm, romPlatform, igdb_id, queries, tokenVars, mergeVars,
                   indexVars, exception, rom_attrs, platformVars, nameVars>>

(* The second try block of _request: requests.post once more, then the     *)
(* return of the answer or of [], or the ConnectionError that no clause of *)
(* this block catches.                                                     *)
SecondPost(r, answer) ==
    LET out == RetryOutcome(impl, r) IN
    /\ retrying
    /\ posts' = posts + 1
    /\ retrying' = FALSE
    /\ IF out \in {"list", "empty"}
       THEN /\ RequestReturns(Returned(out, answer))
            /\ exception' = exception
       ELSE /\ romPc' = "raised"
            /\ exception' = [raised |-> ExceptionOf(out), first |-> "none",
                             exchange |-> "none", retry |-> r]
            /\ UNCHANGED <<attempt, roms, rom, attempts, igdb_rom>>
    /\ UNCHANGED <<romTerm, romPlatform, igdb_id, queries, tokenVars, mergeVars,
                   indexVars, rom_attrs, platformVars, nameVars>>

(* get_rom of "handler" has normalised its search term and starts the `or` *)
(* chain; the provider and the token endpoint answer in any way.           *)
InitPosts ==
    /\ impl = "handler"
    /\ TokenOff
    /\ MergeOff
    /\ SideOff
    /\ romPc = "games"
    /\ romTerm \in Terms
    /\ romPlatform \in Platforms
    /\ attempt = 1
    /\ roms = <<>>
    /\ queries = <<>>
    /\ rom = EmptyDict
    /\ attempts = <<>>
    /\ igdb_id = None
    /\ igdb_rom = EmptyDict

(* The token endpoint is asked only after a 401, and an answer has a body  *)
(* only when its status is 200.                                            *)
NextPosts ==
    \/ \E r \in Responses :
          \E kind \in (IF r = "http401" THEN ExchangeKinds ELSE {"ok"}),
             answer \in (IF r = "ok" THEN ScanAnswers ELSE {<<>>}) :
                FirstPost(r, kind, answer)
    \/ \E r \in Responses :
          \E answer \in (IF r = "ok" THEN ScanAnswers ELSE {<<>>}) : SecondPost(r, answer)

(* A request, once made, is answered (requests.post has a timeout) and the *)
(* code goes on.                                                           *)
SpecPosts == InitPosts /\ [][NextPosts]_vars /\ WF_vars(NextPosts)

(* The query added in this step.                                           *)
Asked == queries'[Len(queries')]

(* The queries of the running attempt made before this step.               *)
AskedBefore == SearchRequests(attempt)

====
